---- MODULE Spec2Model ----
(***************************************************************************)
(* Model of the TQQQ / QQQ 200-day-SMA signal script.                      *)
(*                                                                         *)
(*   src/src/main.py           main() and its private copies of the        *)
(*                             helpers (load_state, fetch_adj_close, ...)  *)
(*   src/src/state_manager.py  load_state / save_state                     *)
(*   src/src/data_fetcher.py   cache, fetch_data_with_retry,               *)
(*                             fetch_adj_close                             *)
(*   src/src/calculations.py   compute_sma                                 *)
(*                                                                         *)
(* Prices are integers and an average is the exact fraction                *)
(* [num, den]; a threshold is the fraction times 105/100 or 97/100, and    *)
(* comparisons cross-multiply.  The rounding of binary floating point is   *)
(* not modelled.                                                           *)
(***************************************************************************)
EXTENDS Integers, Sequences, FiniteSets, TLC

VARIABLES
    stateFile,   \* data/position_state.json
    logFile,     \* data/signals_log.csv
    cacheFile,   \* data/market_data_cache.pkl
    clock,       \* index of the current instant, see Instant
    pc,          \* position of main(): idle, override, fetch3, fetch5, decide, log, done
    manual,      \* MANUAL_POSITION as set for the current run
    state,       \* main(): the dict returned by load_state
    position,    \* main(): the position the decision rule is evaluated with
    qdf,         \* main(): the 3-year QQQ frame
    log_row,     \* main(): the row prepared by the decision step
    outcome,     \* main(): how the run ended
    run,         \* history: files at the start of the run, what the run did,
                 \* the position the previous run ended with
    api,         \* last library call made outside main() and its result
    lastSaved    \* history: the dict last passed to save_state

vars == <<stateFile, logFile, cacheFile, clock, pc, manual, state, position,
          qdf, log_row, outcome, run, api, lastSaved>>

-----------------------------------------------------------------------------
(* Bounds of the model *)

MaxLog == 2          \* rows the signals log may hold
MaxClock == 2        \* instants the clock may pass through
MaxRetriesArg == 3   \* largest `retries` of a direct fetch_data_with_retry call
MaxFails == 15       \* most download attempts that fail before one returns data
MaxTail == 3         \* rows a backtest history has after its first 199
MaxAppends == 3      \* rows direct append_signal_log calls add to one log
MaxLen == 4          \* longest series of a direct compute_sma call
MaxPeriod == 3       \* largest period of a direct compute_sma call on a short series
MaxPctNum == 5       \* largest numerator of an argument of a direct pct_distance call
MaxCacheClock == 5   \* last instant of the clock in sequences of cached fetches
MaxWeeks == 1        \* weeks of current times of a direct get_last_market_close call
MaxSma == 60         \* largest numerator of an SMA200 the rule is evaluated on
MaxClose == 70       \* largest close the rule is evaluated on

-----------------------------------------------------------------------------
(* Program constants *)

SMA_PERIOD == 200
HISTORY_YEARS == 3
CHART_YEARS == 5
\* BUY_MULTIPLIER set below SELL_MULTIPLIER
BUY_MULTIPLIER_low == [num |-> 95, den |-> 100]

BUY_MULTIPLIER == [num |-> 105, den |-> 100]
SELL_MULTIPLIER == [num |-> 97, den |-> 100]
QQQ_SYMBOL == "QQQ"

\* Python's None, as a dict value and as MANUAL_POSITION
None == "<None>"

-----------------------------------------------------------------------------
(* JSON: a Python dict with string keys and str-or-None values is written  *)
(* as an object whose members are sorted by key (sort_keys=True); None is  *)
(* written as null and a str as a JSON string.                             *)

\* the keys the program ever uses, in sorted order
SortedKeys == <<"created", "last_signal_date", "position">>

JsonNull == [t |-> "null", v |-> ""]

JsonString(s) == [t |-> "string", v |-> s]

\* json_encode that writes None as the text str(None) instead of null
json_encode_none_as_text(x) == JsonString(IF x = None THEN "None" ELSE x)

json_encode(x) == IF x = None THEN JsonNull ELSE JsonString(x)

json_decode(j) == IF j.t = "null" THEN None ELSE j.v

RECURSIVE dump_members(_, _)
dump_members(d, keys) ==
    IF keys = <<>> THEN <<>>
    ELSE LET k == Head(keys)
             rest == dump_members(d, Tail(keys))
         IN  IF k \in DOMAIN d
             THEN <<[k |-> k, v |-> json_encode(d[k])]>> \o rest
             ELSE rest

json_dump(d) == dump_members(d, SortedKeys)

json_load(doc) ==
    LET keys == {doc[i].k : i \in DOMAIN doc}
    IN  [k \in keys |-> json_decode(doc[CHOOSE i \in DOMAIN doc : doc[i].k = k].v)]

-----------------------------------------------------------------------------
(* Time.  The clock passes through a few instants, in minutes since a      *)
(* Monday 00:00 UTC, that lie around market closes and a weekend.          *)

MinutesPerDay == 1440
MarketCloseHour == 21

\* Friday 20:59 UTC of the second week
FirstInstant == 7 * MinutesPerDay + 4 * MinutesPerDay + 20 * 60 + 59

\* gaps between successive instants: Fri 20:59, Fri 21:00, Sat 21:00,
\* Mon 20:59, Mon 21:00, Mon 22:00, Tue 21:00, ...
ClockSteps == <<1, 1440, 2879, 1, 60, 1380>>

RECURSIVE Instant(_)
Instant(i) ==
    IF i = 0 THEN FirstInstant
    ELSE Instant(i - 1) + ClockSteps[((i - 1) % Len(ClockSteps)) + 1]

now_utc == Instant(clock)

\* datetime.isoformat()
isoformat(t) == ToString(t)

weekday(t) == (t \div MinutesPerDay) % 7

hour(t) == (t % MinutesPerDay) \div 60

RECURSIVE skip_weekend(_)
skip_weekend(t) == IF weekday(t) >= 5 THEN skip_weekend(t - MinutesPerDay) ELSE t

\* get_last_market_close without `if now_utc.hour < 21`
get_last_market_close_today(now) ==
    skip_weekend((now \div MinutesPerDay) * MinutesPerDay + MarketCloseHour * 60)

get_last_market_close(now) ==
    LET today_close == (now \div MinutesPerDay) * MinutesPerDay + MarketCloseHour * 60
        close == IF hour(now) < MarketCloseHour
                 THEN today_close - MinutesPerDay
                 ELSE today_close
    IN  skip_weekend(close)

-----------------------------------------------------------------------------
(* The state file *)

NoFile == [exists |-> FALSE, valid |-> FALSE, doc |-> <<>>]

save_state(s) == [exists |-> TRUE, valid |-> TRUE, doc |-> json_dump(s)]

DefaultState(now) ==
    [k \in {"position", "last_signal_date", "created"} |->
        CASE k = "position" -> "CASH"
          [] k = "last_signal_date" -> None
          [] k = "created" -> isoformat(now)]

\* result: the dict returned and the state file afterwards
load_state(file, now) ==
    IF file.exists
    THEN IF file.valid
         THEN [ret |-> json_load(file.doc), file |-> file]
         ELSE [ret |-> DefaultState(now), file |-> file]
    ELSE [ret |-> DefaultState(now), file |-> save_state(DefaultState(now))]

\* dict.get(key, default)
get(d, key, default) == IF key \in DOMAIN d THEN d[key] ELSE default

\* d[key] = value
set_item(d, key, value) ==
    [k \in DOMAIN d \cup {key} |-> IF k = key THEN value ELSE d[k]]

-----------------------------------------------------------------------------
(* Market data.  A frame is its column names and the history it holds; a   *)
(* history is `rows` daily closes, all `base` except the last, and the     *)
(* date of its last row.                                                   *)

NaN == -1

Histories == <<
    [rows |-> 199, base |-> 3979,  last |-> 4179,  day |-> 20],  \* too short for SMA200
    [rows |-> 200, base |-> 3979,  last |-> 4179,  day |-> 20],  \* close = buy level
    [rows |-> 200, base |-> 3979,  last |-> 4178,  day |-> 21],  \* sell level < close < buy level
    [rows |-> 200, base |-> 19903, last |-> 19303, day |-> 21],  \* close = sell level
    [rows |-> 200, base |-> 19903, last |-> 19304, day |-> 20]   \* sell level < close < buy level
>>

HistIds == 1 .. Len(Histories)

adj_close(h) ==
    [i \in 1 .. Histories[h].rows |->
        IF i = Histories[h].rows THEN Histories[h].last ELSE Histories[h].base]

\* Timestamp.strftime("%Y-%m-%d")
strftime(day) == "2025-11-" \o ToString(day)

EmptyFrame == [columns |-> {}, hist |-> 0]

DownloadedColumns == {"Adj Close", "Close", "Volume"}

empty(df) == df.hist = 0

\* DataFrame.rename(columns={"Adj Close": "adj_close", "Close": "close"})
rename_column(c) ==
    CASE c = "Adj Close" -> "adj_close"
      [] c = "Close" -> "close"
      [] OTHER -> c

rename(df) == [columns |-> {rename_column(c) : c \in df.columns}, hist |-> df.hist]

\* df[["adj_close"]].copy(); the caller is reached only with the column present
select_adj_close(df) == [columns |-> {"adj_close"}, hist |-> df.hist]

-----------------------------------------------------------------------------
(* calculations *)

NoSma == [num |-> 0, den |-> 0]

RECURSIVE window_sum(_, _, _)
window_sum(series, from, to) ==
    IF from > to THEN 0
    ELSE IF from = to THEN series[from]
    ELSE LET mid == (from + to) \div 2
         IN  window_sum(series, from, mid) + window_sum(series, mid + 1, to)

\* compute_sma that takes a missing value for a number
compute_sma_ignoring_nan(series, period) ==
    [i \in 1 .. Len(series) |->
        IF i < period THEN NoSma
        ELSE [num |-> window_sum(series, i - period + 1, i), den |-> period]]

\* series.rolling(window=period).mean(): entry i is the mean of the `period`
\* values ending at i, undefined while the window is incomplete or holds NaN
compute_sma(series, period) ==
    [i \in 1 .. Len(series) |->
        IF i < period \/ (\E j \in (i - period + 1) .. i : series[j] = NaN)
        THEN NoSma
        ELSE [num |-> window_sum(series, i - period + 1, i), den |-> period]]

isna(x) == x.den = 0

\* x * m for a fraction x and a multiplier m
times(x, m) == [num |-> x.num * m.num, den |-> x.den * m.den]

\* price >= level, price <= level for an integer price and a fraction level
ge(price, level) == price * level.den >= level.num

le(price, level) == price * level.den <= level.num

-----------------------------------------------------------------------------
(* The cache file: a pickled dict {'timestamp': ..., 'data': {key: frame}} *)

NoTimestamp == -1

NoCache == [kind |-> "missing", timestamp |-> NoTimestamp, data |-> <<>>]

CorruptCache == [kind |-> "corrupt", timestamp |-> NoTimestamp, data |-> <<>>]

\* what load_cache returns: `none` stands for Python's None
CacheNone == [none |-> TRUE, data |-> <<>>]

\* load_cache with the expiry test written `cache_time > last_market_close`
load_cache_strict(file, now) ==
    IF file.kind = "missing" THEN CacheNone
    ELSE IF file.kind = "corrupt" THEN CacheNone
    ELSE IF file.timestamp # NoTimestamp
         THEN IF file.timestamp > get_last_market_close(now)
              THEN [none |-> FALSE, data |-> file.data]
              ELSE CacheNone
         ELSE CacheNone

load_cache(file, now) ==
    IF file.kind = "missing" THEN CacheNone
    ELSE IF file.kind = "corrupt" THEN CacheNone
    ELSE IF file.timestamp # NoTimestamp
         THEN IF file.timestamp >= get_last_market_close(now)
              THEN [none |-> FALSE, data |-> file.data]
              ELSE CacheNone
         ELSE CacheNone

save_cache(data, now) == [kind |-> "ok", timestamp |-> now, data |-> data]

cache_key(symbol, years) == symbol \o "_" \o ToString(years) \o "y"

\* `cached_data and cache_key in cached_data`
cache_hit(cached, key) ==
    /\ ~cached.none
    /\ DOMAIN cached.data # {}
    /\ key \in DOMAIN cached.data

\* `load_cache() or {}`
or_empty(cached) == IF cached.none THEN <<>> ELSE cached.data

-----------------------------------------------------------------------------
(* yf.download.  What the successive download attempts of one call do is   *)
(* given by an oracle: the first `fails` attempts fail, in the kinds of    *)
(* `pattern` repeated, and every later attempt returns the history `hist`. *)

FailureKinds == {"empty", "rate_limit", "error"}

Patterns ==
    {<<"empty">>, <<"error">>, <<"rate_limit">>,
     <<"rate_limit", "error">>, <<"error", "empty">>}

Oracles == [pattern : Patterns, fails : 0 .. MaxFails, hist : HistIds]

NoOracle == [pattern |-> <<"empty">>, fails |-> 0, hist |-> 1]

\* outcome of the i-th download attempt
Outcome(o, i) ==
    IF i <= o.fails THEN o.pattern[((i - 1) % Len(o.pattern)) + 1] ELSE "data"

Downloaded(o) == [columns |-> DownloadedColumns, hist |-> o.hist]

-----------------------------------------------------------------------------
(* fetch_data_with_retry.  main.py and data_fetcher.py each define it;     *)
(* `base` is the number of attempts the oracle has already served.         *)

Impls == {"main", "data_fetcher"}

DefaultDelay == 2
DefaultRetriesMain == 5
DefaultRetriesDataFetcher == 3

RateLimitFactor == 3
RateLimitCap == 60
BackoffFactor == 2
BackoffCap == 30

Min(a, b) == IF a < b THEN a ELSE b

\* main.fetch_data_with_retry treats an empty frame and an exception alike
\* (both fall through to the sleep), so the runs of main() draw the failing
\* attempts of a download from one kind, and their number from the first
\* and the last attempt of each of the three intervals and from one past
MainFails ==
    {0} \cup {i * DefaultRetriesMain - 1 : i \in 1 .. 3}
        \cup {i * DefaultRetriesMain : i \in 1 .. 3}

MainOracles ==
    {o \in [pattern : {<<"error">>}, fails : MainFails, hist : HistIds] :
        o.fails = 3 * DefaultRetriesMain => o.hist = 1}

\* a call the cache serves downloads nothing: its oracle is never consulted
OraclesFor(oracles, key, cache, now) ==
    IF cache_hit(load_cache(cache, now), key) THEN {NoOracle} ELSE oracles

\* the loop of main.fetch_data_with_retry from iteration `attempt` on
RECURSIVE fdr_main(_, _, _, _, _, _)
fdr_main(attempt, retries, delay, o, base, sleeps) ==
    IF attempt > retries
    THEN [result |-> EmptyFrame, downloads |-> attempt - 1, sleeps |-> sleeps,
          raised |-> FALSE]
    ELSE IF Outcome(o, base + attempt) = "data"
         THEN [result |-> rename(Downloaded(o)), downloads |-> attempt,
               sleeps |-> sleeps, raised |-> FALSE]
         ELSE fdr_main(attempt + 1, retries, delay, o, base, Append(sleeps, delay))

\* the loop of data_fetcher.fetch_data_with_retry from iteration `attempt` on
RECURSIVE fdr_data_fetcher(_, _, _, _, _, _)
fdr_data_fetcher(attempt, retries, delay, o, base, sleeps) ==
    IF attempt > retries
    THEN [result |-> EmptyFrame, downloads |-> attempt - 1, sleeps |-> sleeps,
          raised |-> FALSE]
    ELSE LET slept == IF attempt > 1 THEN Append(sleeps, delay) ELSE sleeps
             out == Outcome(o, base + attempt)
             next == CASE out = "rate_limit" -> Min(delay * RateLimitFactor, RateLimitCap)
                       [] out = "error" -> Min(delay * BackoffFactor, BackoffCap)
                       [] OTHER -> delay
         IN  IF out = "data"
             THEN [result |-> rename(Downloaded(o)), downloads |-> attempt,
                   sleeps |-> slept, raised |-> FALSE]
             ELSE fdr_data_fetcher(attempt + 1, retries, next, o, base, slept)

\* fetch_data_with_retry looping over range(1, retries + 2)
fetch_data_with_retry_extra(impl, retries, delay, o, base) ==
    IF impl = "main"
    THEN fdr_main(1, retries + 1, delay, o, base, <<>>)
    ELSE fdr_data_fetcher(1, retries + 1, delay, o, base, <<>>)

fetch_data_with_retry(impl, retries, delay, o, base) ==
    IF impl = "main"
    THEN fdr_main(1, retries, delay, o, base, <<>>)
    ELSE fdr_data_fetcher(1, retries, delay, o, base, <<>>)

\* the result of a call that never ran
NoFdr == [result |-> EmptyFrame, downloads |-> 0, sleeps |-> <<>>, raised |-> FALSE]

\* the parameters a call may name, after `symbol`
Parameters(impl) ==
    IF impl = "main" THEN {"interval", "period", "retries", "delay"}
    ELSE {"interval", "period", "retries", "initial_delay"}

\* fetch_data_with_retry(symbol, **kwargs): Python binds the keywords to the
\* parameters and raises TypeError for a keyword that names none
call_fetch_data_with_retry(impl, kwargs, o) ==
    LET delay_name == IF impl = "main" THEN "delay" ELSE "initial_delay"
        retries == get(kwargs, "retries",
                       IF impl = "main" THEN DefaultRetriesMain
                       ELSE DefaultRetriesDataFetcher)
    IN  IF DOMAIN kwargs \subseteq Parameters(impl)
        THEN [error |-> "",
              fdr |-> fetch_data_with_retry(impl, retries,
                                            get(kwargs, delay_name, DefaultDelay), o, 0)]
        ELSE [error |-> "TypeError", fdr |-> NoFdr]

\* backtest.fetch_full_history: the frame, or the exception that leaves it
fetch_full_history(o) ==
    LET r == call_fetch_data_with_retry(
                 "data_fetcher",
                 [interval |-> "1d", period |-> "max", retries |-> 5, delay |-> 2], o)
    IN  IF r.error # "" THEN [error |-> r.error, df |-> EmptyFrame]
        ELSE IF empty(r.fdr.result) THEN [error |-> "RuntimeError", df |-> EmptyFrame]
        ELSE [error |-> "", df |-> r.fdr.result]

-----------------------------------------------------------------------------
(* fetch_adj_close *)

Intervals == <<"1d", "1h", "30m">>

\* `retries` passed for the i-th interval
RetriesFor(impl, i) ==
    IF impl = "main" THEN DefaultRetriesMain
    ELSE IF i = 1 THEN 3 ELSE 2

\* one entry of the record of what a call requested
Requested(i, r) == [interval |-> Intervals[i], empty |-> empty(r.result),
                    downloads |-> r.downloads]

\* download_with_fallback without the first `if df.empty:`: the hourly
\* interval is requested whatever the daily one returned
download_hourly_always(impl, o) ==
    LET r1 == fetch_data_with_retry(impl, RetriesFor(impl, 1), DefaultDelay, o, 0)
        r2 == fetch_data_with_retry(impl, RetriesFor(impl, 2), DefaultDelay, o,
                                    r1.downloads)
        r3 == fetch_data_with_retry(impl, RetriesFor(impl, 3), DefaultDelay, o,
                                    r1.downloads + r2.downloads)
        t2 == <<Requested(1, r1), Requested(2, r2)>>
        t3 == IF empty(r2.result) THEN Append(t2, Requested(3, r3)) ELSE t2
        df3 == IF empty(r2.result) THEN r3.result ELSE r2.result
    IN  [df |-> df3, requested |-> t3]

\* the three fetch_data_with_retry calls of fetch_adj_close: the frame of
\* the first interval that returned data, else an empty frame
download_with_fallback(impl, o) ==
    LET r1 == fetch_data_with_retry(impl, RetriesFor(impl, 1), DefaultDelay, o, 0)
        r2 == fetch_data_with_retry(impl, RetriesFor(impl, 2), DefaultDelay, o,
                                    r1.downloads)
        r3 == fetch_data_with_retry(impl, RetriesFor(impl, 3), DefaultDelay, o,
                                    r1.downloads + r2.downloads)
        t1 == <<Requested(1, r1)>>
        t2 == IF empty(r1.result) THEN Append(t1, Requested(2, r2)) ELSE t1
        df2 == IF empty(r1.result) THEN r2.result ELSE r1.result
        t3 == IF empty(df2) THEN Append(t2, Requested(3, r3)) ELSE t2
        df3 == IF empty(df2) THEN r3.result ELSE df2
    IN  [df |-> df3, requested |-> t3]

\* fetch_adj_close without the `if use_cache:` block that saves the cache
fetch_adj_close_no_save(impl, symbol, years, use_cache, cache, now, o) ==
    LET key == cache_key(symbol, years)
        cached == load_cache(cache, now)
        got == download_with_fallback(impl, o)
    IN  IF use_cache /\ cache_hit(cached, key)
        THEN [raised |-> FALSE, df |-> cached.data[key], cache |-> cache,
              hit |-> TRUE, requested |-> <<>>]
        ELSE [raised |-> empty(got.df),
              df |-> IF empty(got.df) THEN EmptyFrame ELSE select_adj_close(got.df),
              cache |-> cache, hit |-> FALSE, requested |-> got.requested]

\* fetch_adj_close that adds its entry to the pickled dict as it is on
\* disk, expired or not, instead of to `load_cache() or {}`
fetch_adj_close_keeps_expired(impl, symbol, years, use_cache, cache, now, o) ==
    LET key == cache_key(symbol, years)
        cached == load_cache(cache, now)
        got == download_with_fallback(impl, o)
        out == select_adj_close(got.df)
        data == IF cache.kind = "ok" THEN cache.data ELSE <<>>
        stored == [k \in DOMAIN data \cup {key} |-> IF k = key THEN out ELSE data[k]]
    IN  IF use_cache /\ cache_hit(cached, key)
        THEN [raised |-> FALSE, df |-> cached.data[key], cache |-> cache,
              hit |-> TRUE, requested |-> <<>>]
        ELSE IF empty(got.df)
             THEN [raised |-> TRUE, df |-> EmptyFrame, cache |-> cache,
                   hit |-> FALSE, requested |-> got.requested]
             ELSE [raised |-> FALSE, df |-> out,
                   cache |-> IF use_cache THEN save_cache(stored, now) ELSE cache,
                   hit |-> FALSE, requested |-> got.requested]

\* result: raised (RuntimeError), the frame returned, the cache file
\* afterwards, whether the cache served the call, the intervals requested
fetch_adj_close(impl, symbol, years, use_cache, cache, now, o) ==
    LET key == cache_key(symbol, years)
        cached == load_cache(cache, now)
        got == download_with_fallback(impl, o)
        out == select_adj_close(got.df)
        data == or_empty(load_cache(cache, now))
        stored == [k \in DOMAIN data \cup {key} |-> IF k = key THEN out ELSE data[k]]
    IN  IF use_cache /\ cache_hit(cached, key)
        THEN [raised |-> FALSE, df |-> cached.data[key], cache |-> cache,
              hit |-> TRUE, requested |-> <<>>]
        ELSE IF empty(got.df)
             THEN [raised |-> TRUE, df |-> EmptyFrame, cache |-> cache,
                   hit |-> FALSE, requested |-> got.requested]
             ELSE [raised |-> FALSE, df |-> out,
                   cache |-> IF use_cache THEN save_cache(stored, now) ELSE cache,
                   hit |-> FALSE, requested |-> got.requested]

-----------------------------------------------------------------------------
(* The signals log: the lines of the CSV file *)

NoLog == [exists |-> FALSE, lines |-> <<>>]

NoRow ==
    [kind |-> "none", action |-> "", position_from |-> "", position_to |-> "",
     date |-> "", qqq_close |-> 0, sma200 |-> NoSma]

HeaderLine ==
    [kind |-> "header", action |-> "action", position_from |-> "position_from",
     position_to |-> "position_to", date |-> "date", qqq_close |-> 0,
     sma200 |-> NoSma]

\* append_signal_log with header=True on every call
append_with_header(file, row) ==
    [exists |-> TRUE, lines |-> file.lines \o <<HeaderLine, row>>]

\* append_signal_log that writes no line
append_nothing(file, row) == file

\* DataFrame([row]).to_csv(SIGNAL_LOG_CSV, mode='a', header=not exists)
append_signal_log(file, row) ==
    [exists |-> TRUE,
     lines |-> file.lines \o (IF file.exists THEN <<>> ELSE <<HeaderLine>>) \o <<row>>]

LogRows(file) == SelectSeq(file.lines, LAMBDA l : l.kind = "row")

-----------------------------------------------------------------------------
(* main() *)

ManualSettings == {None, "CASH", "TQQQ", "HOLD"}

NoRun ==
    [startFile |-> NoFile, startLog |-> NoLog, loadedFile |-> NoFile,
     overrideFile |-> NoFile, reached |-> FALSE, prevEnd |-> None,
     stdout |-> <<>>]

NeverSaved == [any |-> FALSE, arg |-> <<>>]

Saved(s) == [any |-> TRUE, arg |-> s]

\* decision with the BUY guard written `>` instead of `>=`
decision_buy_strict(pos, qqq_close, buy_level, sell_level) ==
    IF pos = "CASH"
    THEN IF ~le(qqq_close, buy_level) THEN "BUY" ELSE "WAIT"
    ELSE IF pos = "TQQQ"
         THEN IF le(qqq_close, sell_level) THEN "SELL" ELSE "HOLD"
         ELSE "NONE"

\* decision with the SELL guard written `<` instead of `<=`
decision_sell_strict(pos, qqq_close, buy_level, sell_level) ==
    IF pos = "CASH"
    THEN IF ge(qqq_close, buy_level) THEN "BUY" ELSE "WAIT"
    ELSE IF pos = "TQQQ"
         THEN IF ~ge(qqq_close, sell_level) THEN "SELL" ELSE "HOLD"
         ELSE "NONE"

\* decision with the second branch written `if` instead of `elif ... "TQQQ"`,
\* so that a sell signal is acted on whatever the position
decision_unguarded(pos, qqq_close, buy_level, sell_level) ==
    IF pos = "CASH" /\ ge(qqq_close, buy_level) THEN "BUY"
    ELSE IF le(qqq_close, sell_level) THEN "SELL"
    ELSE IF pos = "CASH" THEN "WAIT"
    ELSE IF pos = "TQQQ" THEN "HOLD"
    ELSE "NONE"

\* the two-branch rule of the decision step
decision(pos, qqq_close, buy_level, sell_level) ==
    IF pos = "CASH"
    THEN IF ge(qqq_close, buy_level) THEN "BUY" ELSE "WAIT"
    ELSE IF pos = "TQQQ"
         THEN IF le(qqq_close, sell_level) THEN "SELL" ELSE "HOLD"
         ELSE "NONE"

\* the latest row of a frame that carries the sma200 column
latest_date(df) == strftime(Histories[df.hist].day)

latest_close(df) == adj_close(df.hist)[Histories[df.hist].rows]

\* qdf['sma200'] = compute_sma(qdf['adj_close'], SMA_PERIOD), last entry;
\* computed once for each history
Sma200OfLatest ==
    [h \in HistIds |-> compute_sma(adj_close(h), SMA_PERIOD)[Histories[h].rows]]

\* latest_sma200 after a fillna(0): an undefined SMA200 reads 0
latest_sma200_fillna(df) ==
    IF isna(Sma200OfLatest[df.hist]) THEN [num |-> 0, den |-> 1]
    ELSE Sma200OfLatest[df.hist]

latest_sma200(df) == Sma200OfLatest[df.hist]

\* override_saves without the test `MANUAL_POSITION not in ["CASH", "TQQQ"]`
override_saves_unvalidated(st, m) ==
    m # None /\ get(st, "position", "CASH") # m

\* whether the manual override step rewrites the state file
override_saves(st, m) ==
    m # None /\ m \in {"CASH", "TQQQ"} /\ get(st, "position", "CASH") # m

\* override without `state["last_signal_date"] = None`
override_keeps_date(st, m) ==
    IF override_saves(st, m) THEN set_item(st, "position", m) ELSE st

\* the state dict after the manual override step
override(st, m) ==
    IF override_saves(st, m)
    THEN set_item(set_item(st, "position", m), "last_signal_date", None)
    ELSE st

\* the position the run goes on with
effective_position(st, m) ==
    IF m # None /\ m \in {"CASH", "TQQQ"} THEN m ELSE get(st, "position", "CASH")

NoPct == [num |-> 0, den |-> 0]

abs(x) == IF x < 0 THEN -x ELSE x

RECURSIVE gcd(_, _)
gcd(a, b) == IF b = 0 THEN a ELSE gcd(b, a % b)

\* a fraction in lowest terms
reduce(x) ==
    LET g == gcd(abs(x.num), abs(x.den))
    IN  IF g = 0 THEN x ELSE [num |-> x.num \div g, den |-> x.den \div g]

\* pct_distance with the quotient upside down: (current / target - 1) * 100
pct_distance_swapped(current, target) ==
    IF isna(current) \/ isna(target) THEN NoPct
    ELSE IF current.num = 0 \/ target.num = 0 THEN NoPct
    ELSE LET diff == current.num * target.den - current.den * target.num
             den == current.den * target.num
             g == gcd(100, den)
         IN  reduce([num |-> (100 \div g) * diff, den |-> den \div g])

\* (target / current - 1) * 100 for fractions current and target, None
\* (here NoPct) when current is 0 or either is NaN
pct_distance(current, target) ==
    IF isna(current) \/ isna(target) THEN NoPct
    ELSE IF current.num = 0 THEN NoPct
    ELSE LET c == reduce(current)
             t == reduce(target)
             diff == t.num * c.den - t.den * c.num
             den == t.den * c.num
             g == gcd(100, den)
         IN  reduce([num |-> (100 \div g) * diff, den |-> den \div g])

\* a price as a fraction
price(x) == [num |-> x, den |-> 1]

\* what main() prints, line by line: a line is a summary field with its
\* value, the signal status line, or a note.  Rules, blank lines, icons and
\* the chart notice are left out, and values are kept as quantities (their
\* formatting to two decimals is not modelled).
Field(label, value) == [kind |-> "field", label |-> label, value |-> <<value>>]

Status(label) == [kind |-> "status", label |-> label, value |-> <<>>]

Note(label) == [kind |-> "note", label |-> label, value |-> <<>>]

\* the summary block printed before the decision
summary_lines(pos, last_signal_date, date, qqq_close, sma200) ==
    LET buy_level == times(sma200, BUY_MULTIPLIER)
        sell_level == times(sma200, SELL_MULTIPLIER)
    IN  <<Field("Date:", date),
          Field("QQQ Close:", qqq_close),
          Field("SMA200:", sma200),
          Field("QQQ vs SMA200:", pct_distance(sma200, price(qqq_close))),
          Field("BUY Threshold (+5%):", buy_level),
          Field("SELL Threshold (-3%):", sell_level),
          Field("Distance to BUY:", pct_distance(price(qqq_close), buy_level)),
          Field("Distance to SELL:", pct_distance(price(qqq_close), sell_level)),
          Field("Position:", pos)>>
        \o (IF last_signal_date # None
            THEN <<Field("Last Signal Date:", last_signal_date)>> ELSE <<>>)

\* the lines the decision prints in each of its four branches
status_lines(d) ==
    CASE d = "BUY" -> <<Status("ALERT: BUY TQQQ"), Note("reason")>>
      [] d = "WAIT" -> <<Status("STATUS: Waiting for BUY signal"),
                         Note("Currently in CASH, awaiting entry."),
                         Note("distance to BUY threshold")>>
      [] d = "SELL" -> <<Status("ALERT: SELL TQQQ"), Note("reason")>>
      [] d = "HOLD" -> <<Status("STATUS: Holding TQQQ"),
                         Note("Currently in position, SELL condition not met."),
                         Note("distance to SELL threshold")>>
      [] OTHER -> <<>>

Main_LoadState ==
    /\ pc = "idle"
    /\ Len(LogRows(logFile)) < MaxLog
    /\ \E m \in ManualSettings : manual' = m
    /\ LET r == load_state(stateFile, now_utc)
       IN  /\ state' = r.ret
           /\ stateFile' = r.file
           /\ lastSaved' = IF stateFile.exists THEN lastSaved
                           ELSE Saved(DefaultState(now_utc))
           /\ run' = [startFile |-> stateFile, startLog |-> logFile,
                      loadedFile |-> r.file, overrideFile |-> NoFile,
                      reached |-> FALSE, prevEnd |-> run.prevEnd,
                      stdout |-> <<>>]
    /\ pc' = "override"
    /\ UNCHANGED <<logFile, cacheFile, clock, position, qdf, log_row, outcome, api>>

Main_Override ==
    /\ pc = "override"
    /\ state' = override(state, manual)
    /\ position' = effective_position(state, manual)
    /\ IF override_saves(state, manual)
       THEN /\ stateFile' = save_state(state')
            /\ lastSaved' = Saved(state')
       ELSE UNCHANGED <<stateFile, lastSaved>>
    /\ run' = [run EXCEPT !.overrideFile = stateFile']
    /\ pc' = "fetch3"
    /\ UNCHANGED <<logFile, cacheFile, clock, manual, qdf, log_row, outcome, api>>

\* qdf = fetch_adj_close(QQQ_SYMBOL, HISTORY_YEARS)
Main_Fetch3 ==
    /\ pc = "fetch3"
    /\ \E o \in OraclesFor(MainOracles, cache_key(QQQ_SYMBOL, HISTORY_YEARS),
                            cacheFile, now_utc) :
          LET r == fetch_adj_close("main", QQQ_SYMBOL, HISTORY_YEARS, TRUE,
                                   cacheFile, now_utc, o)
          IN  /\ cacheFile' = r.cache
              /\ qdf' = r.df
              /\ IF r.raised
                 THEN pc' = "done" /\ outcome' = "raised"
                 ELSE pc' = "fetch5" /\ UNCHANGED outcome
    /\ UNCHANGED <<stateFile, logFile, clock, manual, state, position, log_row,
                   run, api, lastSaved>>

\* GENERATE_INTERACTIVE_CHART: qdf_5y = fetch_adj_close(QQQ_SYMBOL, 5)
Main_Fetch5 ==
    /\ pc = "fetch5"
    /\ \E o \in OraclesFor(MainOracles, cache_key(QQQ_SYMBOL, CHART_YEARS),
                            cacheFile, now_utc) :
          LET r == fetch_adj_close("main", QQQ_SYMBOL, CHART_YEARS, TRUE,
                                   cacheFile, now_utc, o)
          IN  /\ cacheFile' = r.cache
              /\ IF r.raised
                 THEN pc' = "done" /\ outcome' = "raised"
                 ELSE pc' = "decide" /\ UNCHANGED outcome
    /\ UNCHANGED <<stateFile, logFile, clock, manual, state, position, qdf,
                   log_row, run, api, lastSaved>>

Main_Decide ==
    /\ pc = "decide"
    /\ LET date == latest_date(qdf)
           qqq_close == latest_close(qdf)
           sma200 == latest_sma200(qdf)
           buy_level == times(sma200, BUY_MULTIPLIER)
           sell_level == times(sma200, SELL_MULTIPLIER)
           d == decision(position, qqq_close, buy_level, sell_level)
           to == IF d = "BUY" THEN "TQQQ" ELSE "CASH"
       IN  IF isna(sma200)
           THEN /\ outcome' = "no_sma"
                /\ pc' = "done"
                /\ run' = [run EXCEPT !.stdout = <<Note("Not enough history")>>]
                /\ UNCHANGED <<state, stateFile, lastSaved, log_row>>
           ELSE /\ outcome' = d
                /\ run' = [run EXCEPT
                             !.reached = TRUE,
                             !.stdout = summary_lines(
                                            position,
                                            get(state, "last_signal_date", None),
                                            date, qqq_close, sma200)
                                        \o status_lines(d)]
                /\ IF d \in {"BUY", "SELL"}
                   THEN /\ state' = set_item(set_item(state, "position", to),
                                             "last_signal_date", date)
                        /\ stateFile' = save_state(state')
                        /\ lastSaved' = Saved(state')
                        /\ log_row' = [kind |-> "row", action |-> d,
                                       position_from |-> position,
                                       position_to |-> to, date |-> date,
                                       qqq_close |-> qqq_close, sma200 |-> sma200]
                        /\ pc' = "log"
                   ELSE /\ pc' = "done"
                        /\ UNCHANGED <<state, stateFile, lastSaved, log_row>>
    /\ UNCHANGED <<logFile, cacheFile, clock, manual, position, qdf, api>>

\* `if log_row: append_signal_log(log_row)`
Main_Log ==
    /\ pc = "log"
    /\ logFile' = append_signal_log(logFile, log_row)
    /\ run' = [run EXCEPT !.stdout = Append(run.stdout, Note("Trade logged"))]
    /\ pc' = "done"
    /\ UNCHANGED <<stateFile, cacheFile, clock, manual, state, position, qdf,
                   log_row, outcome, api, lastSaved>>

\* the process exits; the next run starts with fresh locals
Main_Finish ==
    /\ pc = "done"
    /\ pc' = "idle"
    /\ manual' = None
    /\ state' = <<>>
    /\ position' = None
    /\ qdf' = EmptyFrame
    /\ log_row' = NoRow
    /\ outcome' = ""
    /\ run' = [NoRun EXCEPT !.prevEnd = get(state, "position", "CASH")]
    /\ UNCHANGED <<stateFile, logFile, cacheFile, clock, api, lastSaved>>

Tick ==
    /\ clock < MaxClock
    /\ clock' = clock + 1
    /\ UNCHANGED <<stateFile, logFile, cacheFile, pc, manual, state, position,
                   qdf, log_row, outcome, run, api, lastSaved>>

-----------------------------------------------------------------------------
(* Runs of main() from a fresh data directory *)

NoFac == [raised |-> FALSE, df |-> EmptyFrame, cache |-> NoCache, hit |-> FALSE,
          requested |-> <<>>]

NoBacktest ==
    [position |-> "CASH", cash |-> [num |-> 0, den |-> 1],
     shares |-> [num |-> 0, den |-> 1], portfolio_values |-> <<>>,
     positions |-> <<>>, held |-> <<>>, trades |-> <<>>,
     win_rate |-> [num |-> 0, den |-> 0], error |-> ""]

NoApi ==
    [call |-> "none", before |-> NoFile, ret |-> <<>>, impl |-> "main",
     retries |-> 0, oracle |-> NoOracle, fdr |-> NoFdr, key |-> "",
     use_cache |-> FALSE, cacheBefore |-> NoCache, at |-> 0, fac |-> NoFac,
     cached |-> CacheNone, years |-> 0, kwargs |-> <<>>, error |-> "",
     series |-> [base |-> 0, tail |-> <<>>], row |-> 0, live |-> [position |-> "CASH", positions |-> <<>>, log |-> <<>>], bt |-> NoBacktest,
     rule |-> [position |-> "CASH", sma200 |-> NoSma, qqq_close |-> 0,
              decision |-> ""], logBefore |-> NoLog, logged |-> NoRow,
     sma |-> [series |-> <<>>, period |-> 1, result |-> <<>>], current |-> NoSma, target |-> NoSma, pct |-> NoPct,
     close |-> 0, written |-> <<>>,
     first |-> [manual |-> None, qdf |-> EmptyFrame, reached |-> FALSE,
                outcome |-> ""]]

Init ==
    /\ stateFile = NoFile
    /\ logFile = NoLog
    /\ cacheFile = NoCache
    /\ clock = 0
    /\ pc = "idle"
    /\ manual = None
    /\ state = <<>>
    /\ position = None
    /\ qdf = EmptyFrame
    /\ log_row = NoRow
    /\ outcome = ""
    /\ run = NoRun
    /\ api = NoApi
    /\ lastSaved = NeverSaved

Next ==
    \/ Main_LoadState
    \/ Main_Override
    \/ Main_Fetch3
    \/ Main_Fetch5
    \/ Main_Decide
    \/ Main_Log
    \/ Main_Finish
    \/ Tick

Spec == Init /\ [][Next]_vars

-----------------------------------------------------------------------------
(* Direct calls of load_state and save_state on any state file *)

InvalidFile == [exists |-> TRUE, valid |-> FALSE, doc |-> <<>>]

StateKeys == {"created", "last_signal_date", "position"}

\* values a state file found on disk may hold under each key
FileValues(k) ==
    CASE k = "position" -> {"CASH", "TQQQ", "FOO"}
      [] k = "last_signal_date" -> {None, "2025-11-20"}
      [] k = "created" -> {"t0"}

FileDicts ==
    UNION {{d \in [D -> UNION {FileValues(k) : k \in StateKeys}] :
               \A k \in D : d[k] \in FileValues(k)} : D \in SUBSET StateKeys}

\* the state file is missing, is not JSON, or is a JSON object
StateFiles ==
    {NoFile, InvalidFile}
        \cup {[exists |-> TRUE, valid |-> TRUE, doc |-> json_dump(d)] : d \in FileDicts}

\* the dicts a caller passes to save_state
StateDicts == {d \in FileDicts : DOMAIN d = StateKeys /\ d["position"] # "FOO"}

Api_load_state ==
    /\ api.call = "none"
    /\ LET r == load_state(stateFile, now_utc)
       IN  /\ stateFile' = r.file
           /\ api' = [NoApi EXCEPT !.call = "load_state", !.before = stateFile,
                                   !.ret = r.ret]
           /\ lastSaved' = IF stateFile.exists THEN lastSaved
                           ELSE Saved(DefaultState(now_utc))
    /\ UNCHANGED <<logFile, cacheFile, clock, pc, manual, state, position, qdf,
                   log_row, outcome, run>>

Api_save_state ==
    /\ api.call = "none"
    /\ \E s \in StateDicts :
          /\ stateFile' = save_state(s)
          /\ api' = [NoApi EXCEPT !.call = "save_state", !.before = stateFile,
                                  !.ret = s]
          /\ lastSaved' = Saved(s)
    /\ UNCHANGED <<logFile, cacheFile, clock, pc, manual, state, position, qdf,
                   log_row, outcome, run>>

\* the caller takes the result of its call
Api_Return ==
    /\ api.call # "none"
    /\ api' = NoApi
    /\ UNCHANGED <<stateFile, logFile, cacheFile, clock, pc, manual, state,
                   position, qdf, log_row, outcome, run, lastSaved>>

InitState ==
    /\ stateFile \in StateFiles
    /\ logFile = NoLog
    /\ cacheFile = NoCache
    /\ clock = 0
    /\ pc = "idle"
    /\ manual = None
    /\ state = <<>>
    /\ position = None
    /\ qdf = EmptyFrame
    /\ log_row = NoRow
    /\ outcome = ""
    /\ run = NoRun
    /\ api = NoApi
    /\ lastSaved = NeverSaved

NextState ==
    \/ Api_load_state
    \/ Api_save_state
    \/ Api_Return
    \/ Tick

SpecState == InitState /\ [][NextState]_vars

-----------------------------------------------------------------------------
(* Direct calls of fetch_data_with_retry and fetch_adj_close *)

\* histories the downloads of direct calls return
ApiHists == {1, 2}

FdrOracles == {o \in Oracles : o.fails <= MaxRetriesArg /\ o.hist \in ApiHists}

FacOracles == {o \in Oracles : o.hist \in ApiHists}

ApiYears == {HISTORY_YEARS, CHART_YEARS}

CachedFrame(h) == [columns |-> {"adj_close"}, hist |-> h]

OneEntry(key, h) == [k \in {key} |-> CachedFrame(h)]

\* cache files found on disk: missing, not a pickle, without a timestamp,
\* stamped now with and without entries, stamped a day ago
CacheFiles ==
    {NoCache, CorruptCache,
     [kind |-> "ok", timestamp |-> NoTimestamp,
      data |-> OneEntry(cache_key(QQQ_SYMBOL, HISTORY_YEARS), 2)],
     [kind |-> "ok", timestamp |-> FirstInstant, data |-> <<>>],
     [kind |-> "ok", timestamp |-> FirstInstant,
      data |-> OneEntry(cache_key(QQQ_SYMBOL, HISTORY_YEARS), 2)],
     [kind |-> "ok", timestamp |-> FirstInstant - MinutesPerDay,
      data |-> OneEntry(cache_key(QQQ_SYMBOL, HISTORY_YEARS), 2)]}

Api_fetch_data_with_retry ==
    /\ api.call = "none"
    /\ \E impl \in Impls : \E retries \in 0 .. MaxRetriesArg : \E o \in FdrOracles :
          api' = [NoApi EXCEPT
                    !.call = "fetch_data_with_retry", !.impl = impl,
                    !.retries = retries, !.oracle = o,
                    !.fdr = fetch_data_with_retry(impl, retries, DefaultDelay, o, 0)]
    /\ UNCHANGED <<stateFile, logFile, cacheFile, clock, pc, manual, state,
                   position, qdf, log_row, outcome, run, lastSaved>>

Api_fetch_adj_close ==
    /\ api.call = "none"
    /\ \E impl \in Impls : \E years \in ApiYears : \E use_cache \in BOOLEAN :
       \E o \in FacOracles :
          LET r == fetch_adj_close(impl, QQQ_SYMBOL, years, use_cache, cacheFile,
                                   now_utc, o)
          IN  /\ cacheFile' = r.cache
              /\ api' = [NoApi EXCEPT
                           !.call = "fetch_adj_close", !.impl = impl,
                           !.key = cache_key(QQQ_SYMBOL, years), !.years = years,
                           !.use_cache = use_cache, !.oracle = o,
                           !.cacheBefore = cacheFile, !.at = now_utc, !.fac = r]
    /\ UNCHANGED <<stateFile, logFile, clock, pc, manual, state, position, qdf,
                   log_row, outcome, run, lastSaved>>

Api_load_cache ==
    /\ api.call = "none"
    /\ api' = [NoApi EXCEPT !.call = "load_cache", !.cacheBefore = cacheFile,
                            !.at = now_utc,
                            !.cached = load_cache(cacheFile, now_utc)]
    /\ UNCHANGED <<stateFile, logFile, cacheFile, clock, pc, manual, state,
                   position, qdf, log_row, outcome, run, lastSaved>>

\* the keyword arguments of the calls in tests/test_data_io.py, and the same
\* with the delay passed under the name data_fetcher gives it
KeywordCalls ==
    {[interval |-> "1d", period |-> "3y", retries |-> r, delay |-> 0] : r \in 1 .. 2}
        \cup {[interval |-> "1d", period |-> "3y", retries |-> r, initial_delay |-> 0] :
                  r \in 1 .. 2}

Api_call_fetch_data_with_retry ==
    /\ api.call = "none"
    /\ \E impl \in Impls : \E kwargs \in KeywordCalls : \E o \in FdrOracles :
          LET r == call_fetch_data_with_retry(impl, kwargs, o)
          IN  api' = [NoApi EXCEPT
                        !.call = "fetch_data_with_retry(**kwargs)", !.impl = impl,
                        !.kwargs = kwargs, !.retries = kwargs.retries,
                        !.oracle = o, !.error = r.error, !.fdr = r.fdr]
    /\ UNCHANGED <<stateFile, logFile, cacheFile, clock, pc, manual, state,
                   position, qdf, log_row, outcome, run, lastSaved>>

Api_fetch_full_history ==
    /\ api.call = "none"
    /\ \E o \in FdrOracles :
          LET r == fetch_full_history(o)
          IN  api' = [NoApi EXCEPT
                        !.call = "fetch_full_history", !.impl = "data_fetcher",
                        !.oracle = o, !.error = r.error,
                        !.fdr = [NoFdr EXCEPT !.result = r.df]]
    /\ UNCHANGED <<stateFile, logFile, cacheFile, clock, pc, manual, state,
                   position, qdf, log_row, outcome, run, lastSaved>>

InitFetch ==
    /\ stateFile = NoFile
    /\ logFile = NoLog
    /\ cacheFile \in CacheFiles
    /\ clock = 0
    /\ pc = "idle"
    /\ manual = None
    /\ state = <<>>
    /\ position = None
    /\ qdf = EmptyFrame
    /\ log_row = NoRow
    /\ outcome = ""
    /\ run = NoRun
    /\ api = NoApi
    /\ lastSaved = NeverSaved

NextFetch ==
    \/ Api_fetch_data_with_retry
    \/ Api_fetch_adj_close
    \/ Api_load_cache
    \/ Api_call_fetch_data_with_retry
    \/ Api_fetch_full_history
    \/ Api_Return
    \/ Tick

SpecFetch == InitFetch /\ [][NextFetch]_vars

-----------------------------------------------------------------------------
(* Properties.  What they read of a finished run: pc = "done" is the state *)
(* in which main() has returned and its locals are still in view.          *)

\* the dict the state file holds
PersistedState ==
    IF stateFile.exists /\ stateFile.valid THEN json_load(stateFile.doc) ELSE <<>>

\* position and last_signal_date a run would start from, given the file
StartOf(file) ==
    LET d == load_state(file, 0).ret
    IN  <<get(d, "position", "CASH"), get(d, "last_signal_date", None)>>

\* the run evaluated the decision rule (both fetches returned a frame and
\* the latest SMA200 is defined)
DecisionReached == pc = "done" /\ run.reached

\* latest close >= SMA200 * 1.05, latest close <= SMA200 * 0.97
CloseAtOrAboveBuyLevel ==
    100 * latest_close(qdf) * latest_sma200(qdf).den >= 105 * latest_sma200(qdf).num

CloseAtOrBelowSellLevel ==
    100 * latest_close(qdf) * latest_sma200(qdf).den <= 97 * latest_sma200(qdf).num

\* the run appended exactly one row, with this action, dated the latest row
Recorded(action) ==
    LET before == LogRows(run.startLog)
        after == LogRows(logFile)
    IN  /\ Len(after) = Len(before) + 1
        /\ SubSeq(after, 1, Len(before)) = before
        /\ after[Len(after)].action = action
        /\ after[Len(after)].date = latest_date(qdf)

\* C1: a run that evaluates the decision rule with position CASH and a
\* latest close >= SMA200 * 1.05 (equality included) leaves the persisted
\* position TQQQ, last_signal_date the latest row's date, and one BUY row
\* appended to the log.
C1_BuyTransition ==
    (DecisionReached /\ position = "CASH" /\ CloseAtOrAboveBuyLevel) =>
        /\ get(PersistedState, "position", None) = "TQQQ"
        /\ get(PersistedState, "last_signal_date", None) = latest_date(qdf)
        /\ Recorded("BUY")

C1_Witness ==
    /\ DecisionReached
    /\ position = "CASH"
    /\ 100 * latest_close(qdf) * latest_sma200(qdf).den = 105 * latest_sma200(qdf).num
    /\ get(PersistedState, "position", None) = "TQQQ"
    /\ Len(LogRows(logFile)) = Len(LogRows(run.startLog)) + 1

\* C2: a run that evaluates the decision rule with position TQQQ and a
\* latest close <= SMA200 * 0.97 (equality included) leaves the persisted
\* position CASH, last_signal_date the latest row's date, and one SELL row
\* appended to the log.
C2_SellTransition ==
    (DecisionReached /\ position = "TQQQ" /\ CloseAtOrBelowSellLevel) =>
        /\ get(PersistedState, "position", None) = "CASH"
        /\ get(PersistedState, "last_signal_date", None) = latest_date(qdf)
        /\ Recorded("SELL")

C2_Witness ==
    /\ DecisionReached
    /\ position = "TQQQ"
    /\ 100 * latest_close(qdf) * latest_sma200(qdf).den = 97 * latest_sma200(qdf).num
    /\ get(PersistedState, "position", None) = "CASH"
    /\ Len(LogRows(logFile)) = Len(LogRows(run.startLog)) + 1

\* the run evaluated the rule against the signal opposite to its holding, or
\* against no signal: TQQQ with close > sell level, CASH with close < buy level
NoTransitionCase ==
    /\ DecisionReached
    /\ \/ position = "TQQQ" /\ ~CloseAtOrBelowSellLevel
       \/ position = "CASH" /\ ~CloseAtOrAboveBuyLevel

\* the manual override step rewrote the state file in this run
OverrideApplied ==
    manual \in {"CASH", "TQQQ"} /\ StartOf(run.startFile)[1] # manual

\* C3 as stated: in a run with position TQQQ and close > sell level, or
\* CASH and close < buy level, position and last_signal_date of the state
\* file and the signals log are after the run what they were before it.
C3_AsStated ==
    NoTransitionCase =>
        /\ StartOf(stateFile) = StartOf(run.startFile)
        /\ logFile = run.startLog

\* C3 amended: in such a run the decision step writes nothing: the log is
\* as before the run and the state file is as the load and override steps
\* left it, that is, position and last_signal_date are as before the run
\* unless MANUAL_POSITION is CASH or TQQQ and differs from the saved
\* position, in which case they are MANUAL_POSITION and None.
C3_NoTransitionWritesNothing ==
    NoTransitionCase =>
        /\ logFile = run.startLog
        /\ stateFile = run.overrideFile
        /\ StartOf(stateFile) = IF OverrideApplied THEN <<manual, None>>
                                ELSE StartOf(run.startFile)

\* position TQQQ while the close is at the buy level, and position CASH
\* while the close is at the sell level, both happen
C3_Witness ==
    /\ NoTransitionCase
    /\ position = "TQQQ"
    /\ CloseAtOrAboveBuyLevel
    /\ run.startLog.exists
    /\ logFile = run.startLog

\* rows the run has appended to the signals log
Appended == Len(LogRows(logFile)) - Len(LogRows(run.startLog))

\* C4: from a missing state file, whatever MANUAL_POSITION is set to in each
\* run, the state file once written is a JSON object whose position is
\* CASH or TQQQ.
C4_PositionTwoValued ==
    stateFile.exists =>
        /\ stateFile.valid
        /\ get(PersistedState, "position", None) \in {"CASH", "TQQQ"}

\* a run with an invalid MANUAL_POSITION has finished on a state file that
\* earlier runs moved to TQQQ
C4_Witness ==
    /\ pc = "done"
    /\ manual = "HOLD"
    /\ run.reached
    /\ get(PersistedState, "position", None) = "TQQQ"

\* C5 as stated, for runs that find a state file and get as far as the
\* decision rule: a run whose persisted position differs from the one at
\* its start has appended exactly one row, and a run whose persisted
\* position is the same has appended none.
C5_AsStated ==
    (DecisionReached /\ run.startFile.exists) =>
        IF StartOf(stateFile)[1] # StartOf(run.startFile)[1]
        THEN Appended = 1
        ELSE Appended = 0

\* C5 amended: a finished run has appended exactly one row when its
\* decision rule made a BUY or SELL transition and none otherwise; when the
\* manual override did not rewrite the state file, that is exactly when the
\* persisted position differs from the one at the start of the run.
C5_RowPerTransition ==
    pc = "done" =>
        /\ Appended = IF outcome \in {"BUY", "SELL"} THEN 1 ELSE 0
        /\ SubSeq(LogRows(logFile), 1, Len(LogRows(run.startLog)))
              = LogRows(run.startLog)
        /\ ~OverrideApplied =>
              (StartOf(stateFile)[1] # StartOf(run.startFile)[1] <=> Appended = 1)

C5_Witness ==
    /\ pc = "done"
    /\ run.startFile.exists
    /\ ~OverrideApplied
    /\ StartOf(stateFile)[1] # StartOf(run.startFile)[1]
    /\ Appended = 1

\* C6: load_state returns the position and last_signal_date of the dict
\* last passed to save_state, and with MANUAL_POSITION None a run goes on
\* with the position the previous run ended with.
C6_StatePersists ==
    /\ (pc = "override" /\ lastSaved.any) =>
          /\ get(state, "position", "CASH") = lastSaved.arg["position"]
          /\ get(state, "last_signal_date", "absent") = lastSaved.arg["last_signal_date"]
    /\ (pc = "fetch3" /\ manual = None /\ run.prevEnd # None) =>
          position = run.prevEnd

\* a run without override starts in TQQQ, with the date of the BUY that an
\* earlier run saved
C6_Witness ==
    /\ pc = "fetch3"
    /\ manual = None
    /\ run.prevEnd = "TQQQ"
    /\ position = "TQQQ"
    /\ get(state, "last_signal_date", None) # None

\* the position saved when the run loaded the state
SavedPosition == StartOf(run.loadedFile)[1]

\* C8: after the override step, with MANUAL_POSITION CASH or TQQQ the run
\* goes on with that position, and the state file holds it with
\* last_signal_date None if it differs from the saved position and is
\* untouched if it does not; with any other non-None MANUAL_POSITION the run
\* goes on with the saved position and the state file is untouched.  The
\* decision rule is evaluated with the position so chosen.
C8_ManualOverride ==
    /\ (pc \in {"fetch3", "fetch5", "decide"} /\ manual \in {"CASH", "TQQQ"}) =>
          /\ position = manual
          /\ IF SavedPosition # manual
             THEN /\ stateFile # run.loadedFile
                  /\ StartOf(stateFile) = <<manual, None>>
             ELSE stateFile = run.loadedFile
    /\ (pc \in {"fetch3", "fetch5", "decide"} /\ manual \notin {None, "CASH", "TQQQ"}) =>
          /\ position = SavedPosition
          /\ stateFile = run.loadedFile
    /\ (DecisionReached /\ manual # None) =>
          outcome = decision(IF manual \in {"CASH", "TQQQ"} THEN manual
                             ELSE SavedPosition,
                             latest_close(qdf),
                             times(latest_sma200(qdf), BUY_MULTIPLIER),
                             times(latest_sma200(qdf), SELL_MULTIPLIER))

\* MANUAL_POSITION CASH overrides a TQQQ position that a BUY had dated
C8_Witness ==
    /\ pc = "fetch3"
    /\ manual = "CASH"
    /\ SavedPosition = "TQQQ"
    /\ StartOf(run.loadedFile)[2] # None
    /\ StartOf(stateFile) = <<"CASH", None>>

-----------------------------------------------------------------------------
(* Properties of direct calls of load_state *)

\* the file holds a state: a JSON object with position CASH or TQQQ and a
\* last_signal_date
Usable(file) ==
    /\ file.exists
    /\ file.valid
    /\ {"position", "last_signal_date"} \subseteq DOMAIN json_load(file.doc)
    /\ json_load(file.doc)["position"] \in {"CASH", "TQQQ"}

\* C7 as stated: load_state returns a dict with position and
\* last_signal_date whatever the state file holds; from a missing file it
\* returns position CASH, last_signal_date None and creates the file with
\* that content; from a file whose content is not a usable state it returns
\* the same defaults.
C7_AsStated ==
    api.call = "load_state" =>
        /\ {"position", "last_signal_date"} \subseteq DOMAIN api.ret
        /\ ~api.before.exists =>
              /\ api.ret["position"] = "CASH"
              /\ api.ret["last_signal_date"] = None
              /\ stateFile = save_state(api.ret)
        /\ (api.before.exists /\ ~Usable(api.before)) =>
              /\ api.ret["position"] = "CASH"
              /\ api.ret["last_signal_date"] = None

-----------------------------------------------------------------------------
(* Properties of direct calls of the fetch functions *)

\* C9: a call of fetch_data_with_retry makes at most `retries` downloads and
\* raises nothing; if fewer than `retries` attempts fail it returns the
\* first frame downloaded, with Adj Close and Close renamed to adj_close and
\* close, and otherwise it returns an empty frame after `retries` downloads.
C9_RetryBounded ==
    api.call = "fetch_data_with_retry" =>
        /\ ~api.fdr.raised
        /\ api.fdr.downloads <= api.retries
        /\ IF api.oracle.fails < api.retries
           THEN /\ api.fdr.downloads = api.oracle.fails + 1
                /\ api.fdr.result = [columns |-> {"adj_close", "close", "Volume"},
                                     hist |-> api.oracle.hist]
           ELSE /\ api.fdr.downloads = api.retries
                /\ empty(api.fdr.result)

\* the last allowed attempt returns data after raising and empty attempts
C9_Witness ==
    /\ api.call = "fetch_data_with_retry"
    /\ api.oracle.pattern = <<"error", "empty">>
    /\ api.retries = 3
    /\ api.oracle.fails = 2
    /\ api.fdr.downloads = 3
    /\ ~empty(api.fdr.result)

\* C10: a fetch_adj_close call the cache does not serve requests 1d, 1h,
\* 30m in that order, each after the one before returned empty, and stops
\* at the first that returns data, which it returns; when all three are
\* empty it raises RuntimeError and leaves the cache file as it was.
C10_IntervalFallback ==
    (api.call = "fetch_adj_close" /\ ~api.fac.hit) =>
        LET t == api.fac.requested
        IN  /\ Len(t) \in 1 .. 3
            /\ \A i \in 1 .. Len(t) : t[i].interval = Intervals[i]
            /\ \A i \in 1 .. Len(t) - 1 : t[i].empty
            /\ Len(t) < 3 => ~t[Len(t)].empty
            /\ IF t[Len(t)].empty
               THEN /\ api.fac.raised
                    /\ cacheFile = api.cacheBefore
               ELSE /\ ~api.fac.raised
                    /\ api.fac.df = [columns |-> {"adj_close"},
                                     hist |-> api.oracle.hist]

\* all three intervals came back empty over a cache file that is on disk
\* but out of date
C10_Witness ==
    /\ api.call = "fetch_adj_close"
    /\ api.use_cache
    /\ api.cacheBefore.kind = "ok"
    /\ api.cacheBefore.timestamp # NoTimestamp
    /\ Len(api.fac.requested) = 3
    /\ api.fac.raised

\* C11: load_cache returns the stored data exactly when the cache file
\* exists, unpickles, carries a timestamp and the timestamp is at or after
\* the last market close; otherwise it returns None; it leaves the file as
\* it is.
C11_CacheValidity ==
    api.call = "load_cache" =>
        LET f == api.cacheBefore
            valid == /\ f.kind = "ok"
                     /\ f.timestamp # NoTimestamp
                     /\ f.timestamp >= get_last_market_close(api.at)
        IN  /\ valid => (~api.cached.none /\ api.cached.data = f.data)
            /\ ~valid => api.cached.none
            /\ cacheFile = f

\* a cache stamped exactly at the last market close is returned
C11_Witness ==
    /\ api.call = "load_cache"
    /\ api.cacheBefore.kind = "ok"
    /\ api.cacheBefore.timestamp = get_last_market_close(api.at)
    /\ ~api.cached.none
    /\ DOMAIN api.cached.data # {}

\* download attempts a fetch_adj_close call made, over all its intervals
RECURSIVE TotalDownloads(_)
TotalDownloads(t) ==
    IF t = <<>> THEN 0 ELSE Head(t).downloads + TotalDownloads(Tail(t))

\* the valid cache held an entry under the call's key
EntryCached ==
    cache_hit(load_cache(api.cacheBefore, api.at), api.key)

\* the call that follows at once, with the same arguments
NextCall ==
    fetch_adj_close(api.impl, QQQ_SYMBOL, api.years, api.use_cache, cacheFile,
                    api.at, NoOracle)

Grown(w, kind) ==
    IF kind = "rate_limit" THEN Min(w * RateLimitFactor, RateLimitCap)
    ELSE Min(w * BackoffFactor, BackoffCap)

\* C13 as stated, for calls whose failed attempts all return an empty
\* frame: data_fetcher.fetch_data_with_retry waits before every attempt but
\* the first; the wait before the first retry is initial_delay, and each
\* later wait is the one before it grown by the failed attempt in between.
C13_AsStated ==
    (/\ api.call = "fetch_data_with_retry"
     /\ api.impl = "data_fetcher"
     /\ api.oracle.pattern = <<"empty">>) =>
        LET s == api.fdr.sleeps
        IN  /\ Len(s) = IF api.fdr.downloads = 0 THEN 0 ELSE api.fdr.downloads - 1
            /\ Len(s) >= 1 => s[1] = DefaultDelay
            /\ \A i \in 1 .. Len(s) - 1 :
                  s[i + 1] = Grown(s[i], Outcome(api.oracle, i + 1))

\* C14 as stated: data_fetcher.fetch_data_with_retry called with the
\* keywords interval, period, retries and delay raises nothing and returns
\* a frame, non-empty exactly when an attempt within `retries` returns
\* data; and fetch_full_history raises nothing but RuntimeError, and that
\* only when no data came.
C14_AsStated ==
    /\ (/\ api.call = "fetch_data_with_retry(**kwargs)"
        /\ api.impl = "data_fetcher"
        /\ DOMAIN api.kwargs = {"interval", "period", "retries", "delay"}) =>
          /\ api.error = ""
          /\ empty(api.fdr.result) <=> api.oracle.fails >= api.retries
    /\ api.call = "fetch_full_history" =>
          /\ api.error \in {"", "RuntimeError"}
          /\ api.error = "RuntimeError" => empty(api.fdr.result)

-----------------------------------------------------------------------------
(* backtest.py: backtest_strategy, and main()'s decision step run once per *)
(* row of the same history.  The portfolio arithmetic of the backtest      *)
(* (cash, shares, value) is not part of this section.                      *)

backtest_SMA_PERIOD == 200
backtest_BUY_MULTIPLIER == [num |-> 105, den |-> 100]
backtest_SELL_MULTIPLIER == [num |-> 97, den |-> 100]
INITIAL_CAPITAL == 10000

\* backtest histories: 199 rows at `base`, then the rows of `tail`.  With
\* base 3979 a first tail row of 4179 is exactly the buy level; with base
\* 19903, 39806 is a buy and a following 19400 is exactly the sell level.
TailPrices(base) ==
    IF base = 3979 THEN {4179, 4178, 3800}
    ELSE {39806, 19400, 19401, 21500}

SeriesSet ==
    UNION {[base : {b}, tail : [1 .. n -> TailPrices(b)]] :
              b \in {3979, 19903}, n \in 1 .. MaxTail}

qqq_close_of(s) ==
    [i \in 1 .. (SMA_PERIOD - 1 + Len(s.tail)) |->
        IF i < SMA_PERIOD THEN s.base ELSE s.tail[i - SMA_PERIOD + 1]]

\* the TQQQ history aligned with it: a positive price on every QQQ date,
\* lower on even rows and higher on odd rows, so that a SELL comes out
\* above or below its BUY according to the rows the two fall on
tqqq_close_of(s) ==
    [i \in 1 .. (SMA_PERIOD - 1 + Len(s.tail)) |-> IF i % 2 = 0 THEN 30 ELSE 70]

\* `combined`: the dates on which both closes exist, with sma200 over the
\* QQQ closes of those dates, less the rows whose sma200 is NaN
combined(qqq_close, tqqq_close) ==
    LET dates == SelectSeq([i \in 1 .. Len(qqq_close) |-> i],
                           LAMBDA i : qqq_close[i] # NaN /\ tqqq_close[i] # NaN)
        q == [k \in 1 .. Len(dates) |-> qqq_close[dates[k]]]
        sma == compute_sma(q, backtest_SMA_PERIOD)
        rows == [k \in 1 .. Len(dates) |->
                    [date |-> dates[k], qqq_close |-> q[k],
                     tqqq_close |-> tqqq_close[dates[k]], sma200 |-> sma[k]]]
    IN  SelectSeq(rows, LAMBDA r : ~isna(r.sma200))

\* backtest_signal with the BUY test written `>`
backtest_signal_strict(pos, qqq_price, buy_threshold, sell_threshold) ==
    IF pos = "CASH" /\ ~le(qqq_price, buy_threshold) THEN "BUY"
    ELSE IF pos = "TQQQ" /\ le(qqq_price, sell_threshold) THEN "SELL"
    ELSE ""

\* the `if ... elif ...` of the backtest loop
backtest_signal(pos, qqq_price, buy_threshold, sell_threshold) ==
    IF pos = "CASH" /\ ge(qqq_price, buy_threshold) THEN "BUY"
    ELSE IF pos = "TQQQ" /\ le(qqq_price, sell_threshold) THEN "SELL"
    ELSE ""

Zero == [num |-> 0, den |-> 1]

\* x > y for fractions with positive denominators
gt(x, y) == x.num * y.den > y.num * x.den

\* buy_shares in whole shares: `cash // tqqq_price`
buy_shares_whole(cash, tqqq_price) ==
    [num |-> cash.num \div (cash.den * tqqq_price), den |-> 1]

\* `shares = cash / tqqq_price`
buy_shares(cash, tqqq_price) ==
    reduce([num |-> cash.num, den |-> cash.den * tqqq_price])

\* `shares * tqqq_price`
value_of(shares, tqqq_price) == reduce(times(shares, price(tqqq_price)))

\* the backtest loop from row k on; bt holds position, cash, shares and the
\* lists built so far.  `held` is the (cash, shares) at the end of each
\* iteration, which the code keeps only in its variables.
RECURSIVE backtest_loop(_, _, _)
backtest_loop(rows, k, bt) ==
    IF k > Len(rows) THEN bt
    ELSE LET row == rows[k]
             signal == backtest_signal(bt.position, row.qqq_close,
                                       times(row.sma200, backtest_BUY_MULTIPLIER),
                                       times(row.sma200, backtest_SELL_MULTIPLIER))
             to == IF signal = "BUY" THEN "TQQQ"
                   ELSE IF signal = "SELL" THEN "CASH" ELSE bt.position
             shares == IF signal = "BUY" THEN buy_shares(bt.cash, row.tqqq_close)
                       ELSE IF signal = "SELL" THEN Zero ELSE bt.shares
             cash == IF signal = "BUY" THEN Zero
                     ELSE IF signal = "SELL" THEN value_of(bt.shares, row.tqqq_close)
                     ELSE bt.cash
             trade == [date |-> row.date, action |-> signal,
                       qqq_price |-> row.qqq_close, tqqq_price |-> row.tqqq_close,
                       shares |-> IF signal = "BUY" THEN shares ELSE bt.shares,
                       value |-> IF signal = "BUY"
                                 THEN value_of(shares, row.tqqq_close) ELSE cash]
             portfolio_value == IF to = "TQQQ" THEN value_of(shares, row.tqqq_close)
                                ELSE cash
         IN  backtest_loop(rows, k + 1,
                 [bt EXCEPT
                    !.position = to, !.cash = cash, !.shares = shares,
                    !.portfolio_values = Append(bt.portfolio_values, portfolio_value),
                    !.positions = Append(bt.positions, to),
                    !.held = Append(bt.held, [cash |-> cash, shares |-> shares,
                                              tqqq_price |-> row.tqqq_close,
                                              action |-> signal]),
                    !.trades = IF signal = "" THEN bt.trades
                               ELSE Append(bt.trades, trade)])

\* win_rate = (winning_trades / (num_trades // 2) * 100) if num_trades > 0
\* else 0; `error` is the exception the line raises, if it does.  The loop
\* `for i in range(0, len(trades) - 1, 2)` is over the 1-based odd i below
\* len(trades).
win_rate(trades) ==
    LET num_trades == Len(trades)
        winning_trades ==
            Cardinality({i \in {j \in 1 .. (num_trades - 1) : j % 2 = 1} :
                            gt(trades[i + 1].value, trades[i].value)})
    IN  IF num_trades > 0
        THEN IF num_trades \div 2 = 0
             THEN [error |-> "ZeroDivisionError", value |-> NoPct]
             ELSE [error |-> "",
                   value |-> [num |-> winning_trades * 100, den |-> num_trades \div 2]]
        ELSE [error |-> "", value |-> Zero]

\* the returned dict: the loop's lists and win_rate; `error` names the
\* exception when the function raises instead of returning
backtest_strategy(qqq_close, tqqq_close) ==
    LET bt == backtest_loop(combined(qqq_close, tqqq_close), 1,
                            [NoBacktest EXCEPT !.cash = price(INITIAL_CAPITAL)])
        w == win_rate(bt.trades)
    IN  [bt EXCEPT !.win_rate = w.value, !.error = w.error]

\* one run of main() on the history up to row i, from `pos`: the
\* position it persists and the row it logs
main_decision_step(pos, qqq_close, i) ==
    LET adj == SubSeq(qqq_close, 1, i)
        sma200 == compute_sma(adj, SMA_PERIOD)[i]
        d == decision(pos, adj[i], times(sma200, BUY_MULTIPLIER),
                      times(sma200, SELL_MULTIPLIER))
    IN  IF isna(sma200) THEN [position |-> pos, logged |-> <<>>, reached |-> FALSE]
        ELSE IF d \in {"BUY", "SELL"}
             THEN [position |-> IF d = "BUY" THEN "TQQQ" ELSE "CASH",
                   logged |-> <<[date |-> i, action |-> d, qqq_close |-> adj[i]]>>,
                   reached |-> TRUE]
             ELSE [position |-> pos, logged |-> <<>>, reached |-> TRUE]

Backtest_Run ==
    /\ api.call = "none"
    /\ \E s \in SeriesSet :
          api' = [NoApi EXCEPT
                    !.call = "backtest_strategy", !.series = s,
                    !.bt = backtest_strategy(qqq_close_of(s), tqqq_close_of(s))]
    /\ UNCHANGED <<stateFile, logFile, cacheFile, clock, pc, manual, state,
                   position, qdf, log_row, outcome, run, lastSaved>>

\* the live script runs on the next row of the same history
Live_Row ==
    /\ api.call = "backtest_strategy"
    /\ api.row < Len(qqq_close_of(api.series))
    /\ LET r == main_decision_step(api.live.position, qqq_close_of(api.series),
                                   api.row + 1)
       IN  api' = [api EXCEPT
                     !.row = api.row + 1,
                     !.live = [position |-> r.position,
                               positions |-> IF r.reached
                                             THEN Append(api.live.positions, r.position)
                                             ELSE api.live.positions,
                               log |-> api.live.log \o r.logged]]
    /\ UNCHANGED <<stateFile, logFile, cacheFile, clock, pc, manual, state,
                   position, qdf, log_row, outcome, run, lastSaved>>

NextBacktest ==
    \/ Backtest_Run
    \/ Live_Row
    \/ Api_Return

SpecBacktest == Init /\ [][NextBacktest]_vars

\* the trade rows of the backtest, as date, action and QQQ close
TradeRows(trades) ==
    [k \in 1 .. Len(trades) |->
        [date |-> trades[k].date, action |-> trades[k].action,
         qqq_close |-> trades[k].qqq_price]]

\* C15: once the live decision step has run on every row of a history, in
\* date order from CASH, its positions on the rows with an SMA200 are the
\* backtest's per-row positions and its logged BUY/SELL rows are the
\* backtest's trades; on the way, they are prefixes of them.
C15_BacktestIsLiveRule ==
    api.call = "backtest_strategy" =>
        LET n == Len(api.live.positions)
        IN  /\ n <= Len(api.bt.positions)
            /\ api.live.positions = SubSeq(api.bt.positions, 1, n)
            /\ Len(api.live.log) <= Len(api.bt.trades)
            /\ api.live.log = SubSeq(TradeRows(api.bt.trades), 1, Len(api.live.log))
            /\ api.row = Len(qqq_close_of(api.series)) =>
                  /\ api.live.positions = api.bt.positions
                  /\ api.live.log = TradeRows(api.bt.trades)

\* a history that buys at exactly the buy level and later sells
C15_Witness ==
    /\ api.call = "backtest_strategy"
    /\ api.row = Len(qqq_close_of(api.series))
    /\ api.series.base = 3979
    /\ api.series.tail[1] = 4179
    /\ Len(api.live.log) = 2
    /\ api.live.positions = <<"TQQQ", "TQQQ", "CASH">>

-----------------------------------------------------------------------------
(* Properties of what main() prints *)

\* the signal status lines a run printed
StatusLines == SelectSeq(run.stdout, LAMBDA l : l.kind = "status")

\* the labels of the summary fields a run printed
FieldLabels == {run.stdout[i].label : i \in {j \in DOMAIN run.stdout :
                                                run.stdout[j].kind = "field"}}

\* C16 as stated: a run that reaches the decision step prints exactly one
\* signal status line, and it is ALERT: BUY TQQQ, ALERT: SELL TQQQ,
\* STATUS: Holding TQQQ or STATUS: Holding CASH.
C16_AsStated ==
    DecisionReached =>
        /\ Len(StatusLines) = 1
        /\ StatusLines[1].label \in {"ALERT: BUY TQQQ", "ALERT: SELL TQQQ",
                                     "STATUS: Holding TQQQ", "STATUS: Holding CASH"}

\* the fields the workflow parser reads
RequiredFields ==
    {"Date:", "QQQ Close:", "TQQQ Close:", "SMA200:", "QQQ vs SMA200:",
     "BUY Threshold (+5%):", "SELL Threshold (-3%):", "Position:"}

\* C17 as stated: a run that goes through the decision step prints every
\* required summary field, and its Position field reads CASH or TQQQ.
C17_AsStated ==
    DecisionReached =>
        /\ RequiredFields \subseteq FieldLabels
        /\ \A i \in DOMAIN run.stdout :
              run.stdout[i].label = "Position:" =>
                  run.stdout[i].value[1] \in {"CASH", "TQQQ"}

-----------------------------------------------------------------------------
(* The decision rule on its own: levels and decision for any SMA200 > 0,   *)
(* close and position                                                      *)

\* SMA200 values: whole numbers and multiples of 1/200 and of 1/3
SmaValues == [num : 1 .. MaxSma, den : {1, 3, 200}]

Rule_Evaluate ==
    /\ api.call = "none"
    /\ \E pos \in {"CASH", "TQQQ"} : \E sma200 \in SmaValues : \E c \in 0 .. MaxClose :
          api' = [NoApi EXCEPT
                    !.call = "decision",
                    !.rule = [position |-> pos, sma200 |-> sma200, qqq_close |-> c,
                              decision |-> decision(pos, c,
                                                    times(sma200, BUY_MULTIPLIER),
                                                    times(sma200, SELL_MULTIPLIER))]]
    /\ UNCHANGED <<stateFile, logFile, cacheFile, clock, pc, manual, state,
                   position, qdf, log_row, outcome, run, lastSaved>>

SpecRule ==
    /\ Init
    /\ [][Rule_Evaluate
          \/ Api_Return]_vars

\* C18: for every SMA200 > 0 the sell level is strictly below the buy
\* level, no close is at or above the buy level and at or below the sell
\* level, and a close strictly between the levels, a close equal to SMA200
\* among them, makes no transition from CASH or from TQQQ.
C18_LevelsApart ==
    api.call = "decision" =>
        LET buy_level == times(api.rule.sma200, BUY_MULTIPLIER)
            sell_level == times(api.rule.sma200, SELL_MULTIPLIER)
            c == api.rule.qqq_close
            between == ~ge(c, buy_level) /\ ~le(c, sell_level)
        IN  /\ sell_level.num * buy_level.den < buy_level.num * sell_level.den
            /\ ~(ge(c, buy_level) /\ le(c, sell_level))
            /\ c * api.rule.sma200.den = api.rule.sma200.num => between
            /\ between => api.rule.decision \in {"WAIT", "HOLD"}

\* the close equals SMA200 while in TQQQ, and the rule holds
C18_Witness ==
    /\ api.call = "decision"
    /\ api.rule.position = "TQQQ"
    /\ api.rule.qqq_close * api.rule.sma200.den = api.rule.sma200.num
    /\ api.rule.decision = "HOLD"

-----------------------------------------------------------------------------
(* Direct calls of append_signal_log on any signals log *)

\* the rows callers pass
LogRowValues ==
    {[kind |-> "row", action |-> a, position_from |-> IF a = "BUY" THEN "CASH" ELSE "TQQQ",
      position_to |-> IF a = "BUY" THEN "TQQQ" ELSE "CASH", date |-> strftime(d),
      qqq_close |-> 4179, sma200 |-> [num |-> 3980, den |-> 1]] :
        a \in {"BUY", "SELL"}, d \in {20, 21}}

\* logs found on disk: none, an empty file, a header with one row
LogFiles ==
    {NoLog, [exists |-> TRUE, lines |-> <<>>]}
        \cup {[exists |-> TRUE, lines |-> <<HeaderLine, r>>] : r \in LogRowValues}

Api_append_signal_log ==
    /\ api.call = "none"
    /\ Len(LogRows(logFile)) < MaxAppends
    /\ \E row \in LogRowValues :
          /\ logFile' = append_signal_log(logFile, row)
          /\ api' = [NoApi EXCEPT !.call = "append_signal_log",
                                  !.logBefore = logFile, !.logged = row]
    /\ UNCHANGED <<stateFile, cacheFile, clock, pc, manual, state, position, qdf,
                   log_row, outcome, run, lastSaved>>

InitLog ==
    /\ stateFile = NoFile
    /\ logFile \in LogFiles
    /\ cacheFile = NoCache
    /\ clock = 0
    /\ pc = "idle"
    /\ manual = None
    /\ state = <<>>
    /\ position = None
    /\ qdf = EmptyFrame
    /\ log_row = NoRow
    /\ outcome = ""
    /\ run = NoRun
    /\ api = NoApi
    /\ lastSaved = NeverSaved

SpecLog ==
    /\ InitLog
    /\ [][Api_append_signal_log
          \/ Api_Return]_vars

\* the header lines of a log
Headers(file) == SelectSeq(file.lines, LAMBDA l : l.kind = "header")

\* C19: a call of append_signal_log leaves every earlier line where it was,
\* adds its row as the last line and as the only new data row, and writes
\* the header, as the first line, exactly when it creates the file.
C19_AppendOnly ==
    api.call = "append_signal_log" =>
        LET before == api.logBefore
            n == Len(before.lines)
        IN  /\ logFile.exists
            /\ SubSeq(logFile.lines, 1, n) = before.lines
            /\ LogRows(logFile) = Append(LogRows(before), api.logged)
            /\ logFile.lines[Len(logFile.lines)] = api.logged
            /\ Len(Headers(logFile)) =
                  Len(Headers(before)) + (IF before.exists THEN 0 ELSE 1)
            /\ ~before.exists => logFile.lines = <<HeaderLine, api.logged>>

\* a third row is appended to a log that a call created: one header, first
C19_Witness ==
    /\ api.call = "append_signal_log"
    /\ Len(LogRows(logFile)) = 3
    /\ Len(Headers(logFile)) = 1
    /\ logFile.lines[1] = HeaderLine
    /\ api.logBefore.exists

-----------------------------------------------------------------------------
(* Direct calls of compute_sma *)

\* short series of a missing value and a few prices with every period up
\* to MaxPeriod, and the 199- and 200-row histories with the period 200
SmaCalls ==
    (UNION {[series : [1 .. n -> {NaN, 1, 2, 4}], period : 1 .. MaxPeriod] :
               n \in 0 .. MaxLen})
        \cup {[series |-> adj_close(h), period |-> SMA_PERIOD] : h \in HistIds}

Sma_Compute ==
    /\ api.call = "none"
    /\ \E c \in SmaCalls :
          api' = [NoApi EXCEPT
                    !.call = "compute_sma",
                    !.sma = [series |-> c.series, period |-> c.period,
                             result |-> compute_sma(c.series, c.period)]]
    /\ UNCHANGED <<stateFile, logFile, cacheFile, clock, pc, manual, state,
                   position, qdf, log_row, outcome, run, lastSaved>>

SpecSma ==
    /\ Init
    /\ [][Sma_Compute
          \/ Api_Return]_vars

\* series[from] + ... + series[to], added up value by value: each of the
\* values in `values` times the number of places where it stands
RECURSIVE SumByValue(_, _, _, _)
SumByValue(series, from, to, values) ==
    IF values = {} THEN 0
    ELSE LET v == CHOOSE x \in values : TRUE
         IN  v * Cardinality({j \in from .. to : series[j] = v})
                 + SumByValue(series, from, to, values \ {v})

\* C20: compute_sma returns as many entries as the series has; entry i is
\* undefined when fewer than `period` values end at i or one of them is
\* missing, and is otherwise their sum divided by `period`; of exactly 200
\* rows with period 200 only the last entry is defined.
C20_RollingMean ==
    api.call = "compute_sma" =>
        LET s == api.sma.series
            p == api.sma.period
            r == api.sma.result
        IN  /\ DOMAIN r = 1 .. Len(s)
            /\ \A i \in 1 .. Len(s) :
                  IF i < p \/ (\E j \in (i - p + 1) .. i : j >= 1 /\ s[j] = NaN)
                  THEN isna(r[i])
                  ELSE /\ ~isna(r[i])
                       /\ r[i].num * p = r[i].den
                              * SumByValue(s, i - p + 1, i,
                                           {s[j] : j \in (i - p + 1) .. i})
            /\ (Len(s) = 200 /\ p = 200) =>
                  {i \in 1 .. 200 : ~isna(r[i])} = {200}

\* exactly 200 rows: the last entry is the mean, the one before is undefined
C20_Witness ==
    /\ api.call = "compute_sma"
    /\ api.sma.period = 200
    /\ Len(api.sma.series) = 200
    /\ isna(api.sma.result[199])
    /\ api.sma.result[200] = [num |-> 199 * 3979 + 4179, den |-> 200]

-----------------------------------------------------------------------------
(* Direct calls of pct_distance *)

\* arguments: NaN, zero, and prices in whole and half units
Pct_Compute ==
    /\ api.call = "none"
    /\ \E current, target \in {NoSma} \cup [num : 0 .. MaxPctNum, den : {1, 2}] :
          api' = [NoApi EXCEPT
                    !.call = "pct_distance",
                    !.current = current,
                    !.target = target,
                    !.pct = pct_distance(current, target)]
    /\ UNCHANGED <<stateFile, logFile, cacheFile, clock, pc, manual, state,
                   position, qdf, log_row, outcome, run, lastSaved>>

SpecPct ==
    /\ Init
    /\ [][Pct_Compute
          \/ Api_Return]_vars

\* the sign of a fraction: -1, 0 or 1
SignOf(x) ==
    IF x.num * x.den > 0 THEN 1 ELSE IF x.num * x.den < 0 THEN -1 ELSE 0

-----------------------------------------------------------------------------
(* Runs of main() with MANUAL_POSITION None, from a fresh data directory,
   and runs of the backtest script between them *)

\* a run of main() starts when no other script is running
Main_LoadState_NoManual ==
    /\ api.call = "none"
    /\ Main_LoadState
    /\ manual' = None

\* backtest.py, which reads and writes none of main()'s files, is run from
\* the shell in the fresh data directory, before the first run of main()
Backtest_Script ==
    /\ pc = "idle"
    /\ ~stateFile.exists
    /\ Backtest_Run

SpecAuto ==
    /\ Init
    /\ [][Main_LoadState_NoManual
          \/ Main_Override
          \/ Main_Fetch3
          \/ Main_Fetch5
          \/ Main_Decide
          \/ Main_Log
          \/ Main_Finish
          \/ Tick
          \/ Backtest_Script
          \/ Api_Return]_vars

\* BUY, SELL, BUY, ... from the first entry on
Alternates(actions) ==
    \A k \in 1 .. Len(actions) :
        actions[k] = IF k % 2 = 1 THEN "BUY" ELSE "SELL"

\* C22: with MANUAL_POSITION None, from a missing state file and an empty
\* log, the actions of the rows of signals_log.csv are BUY, SELL, BUY, ...
\* in turn, beginning with BUY, after any number of runs; and so are the
\* actions of the trades list that backtest_strategy builds.
C22_Alternation ==
    /\ Alternates([k \in 1 .. Len(LogRows(logFile)) |-> LogRows(logFile)[k].action])
    /\ api.call = "backtest_strategy" =>
          Alternates([k \in 1 .. Len(api.bt.trades) |-> api.bt.trades[k].action])

\* two completed runs of main() have logged a BUY and then a SELL
C22_Witness ==
    /\ pc = "idle"
    /\ Len(LogRows(logFile)) = 2
    /\ LogRows(logFile)[1].action = "BUY"
    /\ LogRows(logFile)[2].action = "SELL"

\* C23: with MANUAL_POSITION None, from a missing state file and an empty
\* log, after every run the state file and the log agree: the persisted
\* position is TQQQ exactly when the last log row's action is BUY (CASH when
\* the log is empty or its last row is SELL), and last_signal_date is the
\* date of the last log row (None when the log is empty).
C23_StateAgreesWithLog ==
    pc \in {"done", "idle"} =>
        LET rows == LogRows(logFile)
            last == rows[Len(rows)]
        IN  StartOf(stateFile) =
                IF rows = <<>> THEN <<"CASH", None>>
                ELSE <<IF last.action = "BUY" THEN "TQQQ" ELSE "CASH", last.date>>

\* a run has sold: the state file holds CASH and the date of the SELL row,
\* which follows a BUY row
C23_Witness ==
    /\ pc = "done"
    /\ outcome = "SELL"
    /\ Len(LogRows(logFile)) = 2
    /\ StartOf(stateFile) = <<"CASH", LogRows(logFile)[2].date>>
    /\ StartOf(run.startFile)[1] = "TQQQ"

-----------------------------------------------------------------------------
(* Runs of main() with MANUAL_POSITION None in which the writes of a BUY or
   SELL may raise.  main() has no try around save_state or
   append_signal_log: the exception ends the run. *)

\* save_state inside `try: ... except: pass`: the exception is swallowed
\* and the run goes on to log the row
Main_Decide_SaveSwallowed ==
    /\ pc = "decide"
    /\ LET sma200 == latest_sma200(qdf)
           d == decision(position, latest_close(qdf),
                         times(sma200, BUY_MULTIPLIER),
                         times(sma200, SELL_MULTIPLIER))
           to == IF d = "BUY" THEN "TQQQ" ELSE "CASH"
       IN  /\ ~isna(sma200)
           /\ d \in {"BUY", "SELL"}
           /\ state' = set_item(set_item(state, "position", to),
                                "last_signal_date", latest_date(qdf))
           /\ run' = [run EXCEPT !.reached = TRUE]
           /\ log_row' = [kind |-> "row", action |-> d,
                          position_from |-> position, position_to |-> to,
                          date |-> latest_date(qdf),
                          qqq_close |-> latest_close(qdf), sma200 |-> sma200]
           /\ outcome' = d
    /\ stateFile' \in {stateFile, InvalidFile}
    /\ pc' = "log"
    /\ UNCHANGED <<logFile, cacheFile, clock, manual, position, qdf, api,
                   lastSaved>>

\* save_state(state) of a BUY or SELL raises: open() failed and the file is
\* as it was, or the write was cut short and the file is not JSON
Main_Decide_SaveRaises ==
    /\ pc = "decide"
    /\ LET sma200 == latest_sma200(qdf)
           d == decision(position, latest_close(qdf),
                         times(sma200, BUY_MULTIPLIER),
                         times(sma200, SELL_MULTIPLIER))
       IN  /\ ~isna(sma200)
           /\ d \in {"BUY", "SELL"}
           /\ state' = set_item(set_item(state, "position",
                                         IF d = "BUY" THEN "TQQQ" ELSE "CASH"),
                                "last_signal_date", latest_date(qdf))
           /\ run' = [run EXCEPT
                        !.reached = TRUE,
                        !.stdout = summary_lines(
                                       position,
                                       get(state, "last_signal_date", None),
                                       latest_date(qdf), latest_close(qdf), sma200)]
    /\ stateFile' \in {stateFile, InvalidFile}
    /\ outcome' = "save_raised"
    /\ pc' = "done"
    /\ UNCHANGED <<logFile, cacheFile, clock, manual, position, qdf, log_row,
                   api, lastSaved>>

\* append_signal_log(log_row) raises; the state was saved before
Main_Log_AppendRaises ==
    /\ pc = "log"
    /\ outcome' = "append_raised"
    /\ pc' = "done"
    /\ UNCHANGED <<stateFile, logFile, cacheFile, clock, manual, state,
                   position, qdf, log_row, run, api, lastSaved>>

SpecFail ==
    /\ Init
    /\ [][Main_LoadState_NoManual
          \/ Main_Override
          \/ Main_Fetch3
          \/ Main_Fetch5
          \/ Main_Decide
          \/ Main_Decide_SaveRaises
          \/ Main_Log
          \/ Main_Log_AppendRaises
          \/ Main_Finish
          \/ Tick]_vars

\* C24 as stated: however a run ends, the position is changed in the state
\* file exactly when the run has written a log row.
C24_AsStated ==
    pc = "done" =>
        (StartOf(stateFile)[1] # StartOf(run.startFile)[1] <=> Appended = 1)

\* C24, amended: a log row is never written without the position change:
\* when a run has appended a row, the state file holds that row's
\* position_to and date, and when save_state raised the log is as it was.
\* The position change is not undone when append_signal_log raises: then
\* the state file holds it and the log is as it was.
C24_RowOnlyAfterSave ==
    pc = "done" =>
        LET rows == LogRows(logFile)
            last == rows[Len(rows)]
        IN  /\ Appended \in {0, 1}
            /\ Appended = 1 =>
                  /\ StartOf(stateFile) = <<last.position_to, last.date>>
                  /\ last.position_from = StartOf(run.overrideFile)[1]
            /\ outcome = "save_raised" =>
                  /\ logFile = run.startLog
                  /\ stateFile \in {run.overrideFile, InvalidFile}
            /\ outcome = "append_raised" =>
                  /\ logFile = run.startLog
                  /\ StartOf(stateFile) = <<log_row.position_to, log_row.date>>
                  /\ StartOf(stateFile)[1] # StartOf(run.overrideFile)[1]

\* a BUY whose append raised: TQQQ is persisted and the log has no row
C24_Witness ==
    /\ pc = "done"
    /\ outcome = "append_raised"
    /\ StartOf(run.startFile)[1] = "CASH"
    /\ StartOf(stateFile)[1] = "TQQQ"
    /\ LogRows(logFile) = <<>>

-----------------------------------------------------------------------------
(* main() run again and again with the same config.py: MANUAL_POSITION is
   what it was in the run before, of which `api.first` keeps the setting,
   the frame it decided on and its outcome *)

Rerun_LoadState ==
    /\ Main_LoadState
    /\ api.call = "main" => manual' = api.first.manual

\* the process exits, as in Main_Finish
Rerun_Finish ==
    /\ pc = "done"
    /\ pc' = "idle"
    /\ manual' = None
    /\ state' = <<>>
    /\ position' = None
    /\ qdf' = EmptyFrame
    /\ log_row' = NoRow
    /\ outcome' = ""
    /\ run' = [NoRun EXCEPT !.prevEnd = get(state, "position", "CASH")]
    /\ api' = [NoApi EXCEPT
                 !.call = "main",
                 !.first = [manual |-> manual, qdf |-> qdf,
                            reached |-> run.reached, outcome |-> outcome]]
    /\ UNCHANGED <<stateFile, logFile, cacheFile, clock, lastSaved>>

SpecRerun ==
    /\ Init
    /\ [][Rerun_LoadState
          \/ Main_Override
          \/ Main_Fetch3
          \/ Main_Fetch5
          \/ Main_Decide
          \/ Main_Log
          \/ Rerun_Finish
          \/ Tick]_vars

\* this run and the one before it both evaluated the decision rule, on the
\* same latest market row
SecondRunOnSameRow ==
    /\ DecisionReached
    /\ api.call = "main"
    /\ api.first.reached
    /\ api.first.qdf = qdf

\* C25 as stated: whatever MANUAL_POSITION is, a second run on the same
\* latest market row makes no transition and appends no row.
C25_AsStated ==
    SecondRunOnSameRow =>
        /\ outcome \notin {"BUY", "SELL"}
        /\ logFile = run.startLog

\* C25, amended: a second run on the same latest market row makes no
\* transition and appends no row when MANUAL_POSITION is None (or not a
\* position), or when the first run made no transition; with
\* MANUAL_POSITION CASH or TQQQ, a first run that made a transition is
\* repeated by the second: the override puts the position back, the same
\* transition is made and one more row is appended.
C25_RerunIdempotent ==
    SecondRunOnSameRow =>
        IF manual \in {"CASH", "TQQQ"} /\ api.first.outcome \in {"BUY", "SELL"}
        THEN /\ outcome = api.first.outcome
             /\ Appended = 1
        ELSE /\ outcome \notin {"BUY", "SELL"}
             /\ logFile = run.startLog

\* with MANUAL_POSITION None, the run after a BUY holds on the same row
C25_Witness ==
    /\ SecondRunOnSameRow
    /\ manual = None
    /\ api.first.outcome = "BUY"
    /\ outcome = "HOLD"
    /\ Len(LogRows(logFile)) = 1

\* the run ended before the decision: fetch_adj_close raised, or the frame
\* it returned has fewer than SMA_PERIOD rows
DecisionNotReached ==
    /\ pc = "done"
    /\ \/ outcome = "raised"
       \/ ~empty(qdf) /\ Histories[qdf.hist].rows < SMA_PERIOD

\* C26: with MANUAL_POSITION None, a run that ends before the decision step,
\* because fetch_adj_close raised or because the latest SMA200 is undefined
\* (fewer than 200 rows), leaves the persisted position, last_signal_date
\* and the signals log as they were before it.
C26_FailedRunChangesNothing ==
    DecisionNotReached =>
        /\ StartOf(stateFile) = StartOf(run.startFile)
        /\ logFile = run.startLog
        /\ ~run.reached

\* a run that began in TQQQ, after a logged BUY, and whose fetch raised
C26_Witness ==
    /\ DecisionNotReached
    /\ outcome = "raised"
    /\ StartOf(run.startFile)[1] = "TQQQ"
    /\ Len(LogRows(logFile)) = 1

-----------------------------------------------------------------------------
(* Direct calls of get_last_market_close at any minute *)

\* at every minute of the weeks after the first; week 0 is left for the
\* closes that lie before the first current time
Api_get_last_market_close ==
    /\ api.call = "none"
    /\ \E now \in (7 * MinutesPerDay) .. ((1 + MaxWeeks) * 7 * MinutesPerDay - 1) :
          api' = [NoApi EXCEPT
                    !.call = "get_last_market_close",
                    !.at = now,
                    !.close = get_last_market_close(now)]
    /\ UNCHANGED <<stateFile, logFile, cacheFile, clock, pc, manual, state,
                   position, qdf, log_row, outcome, run, lastSaved>>

SpecClose ==
    /\ Init
    /\ [][Api_get_last_market_close
          \/ Api_Return]_vars

\* C27: at every current time, get_last_market_close returns a 21:00 UTC
\* that is not later than the current time, is on a Monday to Friday, and
\* has no later weekday 21:00 at or before the current time (from Saturday
\* until Monday 20:59 it is Friday's close); so a cache saved at the current
\* time is not expired at that time.
C27_LastMarketClose ==
    api.call = "get_last_market_close" =>
        LET now == api.at
            r == api.close
        IN  /\ r % MinutesPerDay = 21 * 60
            /\ r <= now
            /\ weekday(r) \in 0 .. 4
            /\ \A d \in 1 .. 7 :
                  r + d * MinutesPerDay <= now => weekday(r + d * MinutesPerDay) \in {5, 6}
            /\ now - r < 7 * MinutesPerDay
            /\ (weekday(now) \in {5, 6} \/ (weekday(now) = 0 /\ now % MinutesPerDay < 21 * 60))
                  => /\ weekday(r) = 4
                     /\ now - r < 3 * MinutesPerDay
            /\ ~load_cache(save_cache(<<>>, now), now).none

\* Monday 20:59: the close is Friday's 21:00, two days and 23:59 before
C27_Witness ==
    /\ api.call = "get_last_market_close"
    /\ weekday(api.at) = 0
    /\ api.at % MinutesPerDay = 20 * 60 + 59
    /\ api.at - api.close = 3 * MinutesPerDay - 1

-----------------------------------------------------------------------------
(* Sequences of fetch_adj_close calls with the cache, for different keys at
   increasing times, from a missing cache file.  `api.written` keeps, for
   each key of the cache file, the time at which its entry was written. *)

\* a download that succeeds at once, and one of which every attempt fails
CacheOracles ==
    {o \in Oracles : o.pattern = <<"empty">> /\ o.fails \in {0, MaxFails} /\ o.hist = 2}

\* The first load_cache() is at the current instant.  A call that the
\* cache does not serve downloads, which takes until the same or the next
\* instant of the clock: there it calls load_cache() again and saves.  (A
\* cache that does not serve the key now does not serve it later either.)
Cache_fetch_adj_close ==
    /\ api.call = "none"
    /\ \E impl \in Impls : \E years \in ApiYears : \E took \in {0, 1} :
       \E o \in OraclesFor(CacheOracles, cache_key(QQQ_SYMBOL, years), cacheFile,
                           now_utc) :
          LET key == cache_key(QQQ_SYMBOL, years)
              later == Instant(clock + took)
          IN  \E first \in {fetch_adj_close(impl, QQQ_SYMBOL, years, TRUE,
                                             cacheFile, now_utc, o)} :
              \E r \in {IF first.hit THEN first
                        ELSE fetch_adj_close(impl, QQQ_SYMBOL, years, TRUE,
                                             cacheFile, later, o)} :
                 /\ clock + took <= MaxCacheClock
                 /\ first.hit => took = 0
                 /\ clock' = clock + took
                 /\ cacheFile' = r.cache
                 /\ api' = [NoApi EXCEPT
                              !.call = "fetch_adj_close", !.impl = impl,
                              !.key = key, !.years = years, !.use_cache = TRUE,
                              !.oracle = o, !.cacheBefore = cacheFile,
                              !.at = now_utc, !.fac = r,
                              !.written =
                                  IF r.hit \/ r.raised THEN api.written
                                  ELSE [k \in DOMAIN r.cache.data |->
                                           IF k = key THEN later
                                           ELSE api.written[k]]]
    /\ UNCHANGED <<stateFile, logFile, pc, manual, state, position, qdf,
                   log_row, outcome, run, lastSaved>>

Cache_Return ==
    /\ api.call # "none"
    /\ api' = [NoApi EXCEPT !.written = api.written]
    /\ UNCHANGED <<stateFile, logFile, cacheFile, clock, pc, manual, state,
                   position, qdf, log_row, outcome, run, lastSaved>>

Cache_Tick ==
    /\ clock < MaxCacheClock
    /\ clock' = clock + 1
    /\ UNCHANGED <<stateFile, logFile, cacheFile, pc, manual, state, position,
                   qdf, log_row, outcome, run, api, lastSaved>>

SpecCache ==
    /\ Init
    /\ [][Cache_fetch_adj_close
          \/ Cache_Return
          \/ Cache_Tick]_vars

-----------------------------------------------------------------------------
(* Properties of the backtest's bookkeeping *)

\* x = y for fractions
SameValue(x, y) == x.num * y.den = y.num * x.den

\* C29: in backtest_strategy, with positive prices, at the end of every
\* loop iteration the position is TQQQ exactly when shares > 0 and cash = 0,
\* and CASH exactly when shares = 0 and cash > 0; a BUY turns all the cash
\* into shares and a SELL all the shares into cash at the row's TQQQ price,
\* and the portfolio value of a trade row is the value that the holding
\* before the trade has at that price.
C29_BacktestHoldings ==
    api.call = "backtest_strategy" =>
        \A k \in 1 .. Len(api.bt.held) :
            LET h == api.bt.held[k]
                before == IF k = 1
                          THEN [cash |-> price(INITIAL_CAPITAL), shares |-> Zero]
                          ELSE api.bt.held[k - 1]
                p == price(h.tqqq_price)
                v == api.bt.portfolio_values[k]
                pos == api.bt.positions[k]
            IN  /\ pos \in {"CASH", "TQQQ"}
                /\ pos = "TQQQ" <=> (gt(h.shares, Zero) /\ SameValue(h.cash, Zero))
                /\ pos = "CASH" <=> (SameValue(h.shares, Zero) /\ gt(h.cash, Zero))
                /\ h.action = "BUY" =>
                      /\ SameValue(times(h.shares, p), before.cash)
                      /\ SameValue(h.cash, Zero)
                      /\ SameValue(v, before.cash)
                /\ h.action = "SELL" =>
                      /\ SameValue(h.cash, times(before.shares, p))
                      /\ SameValue(h.shares, Zero)
                      /\ SameValue(v, times(before.shares, p))
                /\ h.action = "" =>
                      /\ h.cash = before.cash
                      /\ h.shares = before.shares

\* a BUY at 30 and a SELL at 70: 10000 becomes 1000/3 shares and then
\* 70000/3 in cash
C29_Witness ==
    /\ api.call = "backtest_strategy"
    /\ Len(api.bt.trades) = 2
    /\ api.bt.trades[1].shares = [num |-> 1000, den |-> 3]
    /\ api.bt.cash = [num |-> 70000, den |-> 3]
    /\ api.bt.position = "CASH"

\* C30 as stated: backtest_strategy returns a win_rate for every trade
\* list: 100 * (completed BUY-SELL pairs whose SELL value exceeds the BUY
\* value) / (completed pairs), within 0 .. 100, and 0 when no pair is
\* completed, a single unmatched BUY included.
C30_AsStated ==
    api.call = "backtest_strategy" =>
        LET trades == api.bt.trades
            pairs == Len(trades) \div 2
            won == Cardinality({j \in 1 .. pairs :
                                   gt(trades[2 * j].value, trades[2 * j - 1].value)})
            w == api.bt.win_rate
        IN  /\ api.bt.error = ""
            /\ ~isna(w)
            /\ IF pairs = 0 THEN w.num = 0
               ELSE w.num * pairs = w.den * 100 * won
            /\ w.num >= 0
            /\ w.num <= 100 * w.den

====
